---- MODULE Spec2Model ----
(***************************************************************************)
(* SomniaStudio: the static security analyzer.                             *)
(*                                                                         *)
(*   - POST /api/security (the route analyzer): fourteen presence/absence  *)
(*     rules over the contract source, a weighted risk score, a risk       *)
(*     level, a severity summary and a deployment recommendation;          *)
(*   - lib/securityAnalyzer.js analyzeContract: the regex catalog with     *)
(*     occurrence counts, best-practice checks and the safeToDeploy flag.  *)
(*                                                                         *)
(* Source text is a sequence of one-character strings, so that             *)
(* String.prototype.includes and the regular expressions are modelled by   *)
(* what they do on the characters.                                         *)
(***************************************************************************)
EXTENDS Integers, Sequences, FiniteSets, TLC

VARIABLES
    code,        \* the `code` member of the JSON body the client posts
    now,         \* the server clock read by new Date()
    previous,    \* the response to the run before the latest one (or NoResponse)
    response,    \* the response to the latest POST /api/security (or NoResponse)
    libPrevious, \* the result of the analyzeContract call before the latest one
    libResult,   \* the result of the latest analyzeContract(code) call
    lastIndex,   \* the lastIndex of the regex objects the library's catalogs share
    otherResult, \* the latest analyzeContract call of another caller: source, result
    env,         \* process.env of the server: which keys are configured
    request,     \* the request POST /api/agent is handling: action, wallet, x-payment
    pc,          \* where the agent handler stands in that request
    trace,       \* the external calls the agent handler has made for that request
    agentResponse, \* the response of POST /api/agent to that request (or NoResponse)
    pools,       \* HighSpeedDEX.pools, by poolId
    liquidityProviders, \* HighSpeedDEX.liquidityProviders, by poolId and account
    swapFee,     \* HighSpeedDEX.swapFee
    dexCall,     \* the latest call of a HighSpeedDEX function and how it ended
    tokenIdCounter, \* GameAssetNFT._tokenIdCounter
    tokenOwner,  \* GameAssetNFT: the owner of each token minted, by tokenId + 1
    tokenRarity, \* GameAssetNFT.tokenRarity of each token minted, by tokenId + 1
    nftCall,     \* the latest call of a GameAssetNFT function and how it ended
    analyticsFile, \* data/analytics.json: missing, or its deployments and users
    inflight,    \* /api/analytics: per client, the body of the POST being read
    acknowledged, \* the POSTs answered with success since the last DELETE
    analyticsResponse, \* the latest response of /api/analytics
    userFiles,   \* the studio editor: the files of the explorer, name and code
    currentFileName, \* the studio editor: the name of the open file
    editorCode,  \* the studio editor: the code in the editor (the state `code`)
    findings,    \* risk scoring: a list of issues that grows by one finding
    riskReport,  \* risk scoring: riskScore and riskLevel of that list
    isConnected, \* the IDE: useUserStore().isConnected
    isCompiling, \* the IDE: useIDEStore().isCompiling
    isDeploying, \* the IDE: useIDEStore().isDeploying
    compileResult, \* the IDE: useIDEStore().compileResult: null, success, failure
    aiPanelOpen, \* the IDE: useIDEStore().aiPanelOpen
    compilePc,   \* the IDE: the await the running handleCompile stands at
    deployPc,    \* the IDE: the await the running handleDeploy stands at
    ideRequest   \* the IDE: the latest request it sent to /api/agent

analyzerVars ==
    <<code, now, previous, response, libPrevious, libResult, lastIndex, otherResult>>

agentVars == <<env, request, pc, trace, agentResponse>>

dexVars == <<pools, liquidityProviders, swapFee, dexCall>>

nftVars == <<tokenIdCounter, tokenOwner, tokenRarity, nftCall>>

\* the state of the parts added to the server and the DEX
analyticsVars == <<analyticsFile, inflight, acknowledged, analyticsResponse>>

editorVars == <<userFiles, currentFileName, editorCode>>

riskVars == <<findings, riskReport>>

ideVars ==
    <<isConnected, isCompiling, isDeploying, compileResult, aiPanelOpen, compilePc,
      deployPc, ideRequest>>

clientVars == <<nftVars, analyticsVars, editorVars, riskVars, ideVars>>

vars == <<analyzerVars, agentVars, dexVars, clientVars>>

-----------------------------------------------------------------------------
(* Bounds of the model. *)

MaxFrags == 2

\* the largest amount a HighSpeedDEX call carries, and the cap on a reserve
MaxAmount == 2

MaxReserve == 3
MaxClock == 1

\* the number of tokens GameAssetNFT mints, and the longest batchMint array
MaxMinted == 3

MaxBatch == 2

\* the number of deployments /api/analytics is asked to record
MaxRecords == 3

\* the number of files the explorer of the editor holds
MaxFiles == 3

\* the number of findings of a scored list
MaxFindings == 3

-----------------------------------------------------------------------------
(* Characters and literals. *)

Letters ==
    {
        "a", "b", "c", "d", "e", "f", "g", "h", "i", "j", "k", "l", "m",
        "n", "o", "p", "q", "r", "s", "t", "u", "v", "w", "x", "y", "z",
        "A", "B", "C", "D", "E", "F", "G", "H", "I", "J", "K", "L", "M",
        "N", "O", "P", "Q", "R", "S", "T", "U", "V", "W", "X", "Y", "Z" }

Lit ==
    [ callValue |->
        <<".", "c", "a", "l", "l", "{", "v", "a", "l", "u", "e", ":">>,
      ReentrancyGuard |->
        <<"R", "e", "e", "n", "t", "r", "a", "n", "c", "y", "G", "u", "a", "r", "d">>,
      nonReentrant |->
        <<"n", "o", "n", "R", "e", "e", "n", "t", "r", "a", "n", "t">>,
      call |->
        <<".", "c", "a", "l", "l", "(">>,
      delegatecall |->
        <<".", "d", "e", "l", "e", "g", "a", "t", "e", "c", "a", "l", "l", "(">>,
      require |->
        <<"r", "e", "q", "u", "i", "r", "e">>,
      revert |->
        <<"r", "e", "v", "e", "r", "t">>,
      txOrigin |->
        <<"t", "x", ".", "o", "r", "i", "g", "i", "n">>,
      pragmaSolidity |->
        <<"p", "r", "a", "g", "m", "a", " ", "s", "o", "l", "i", "d", "i", "t", "y", " ">>,
      SafeMath |->
        <<"S", "a", "f", "e", "M", "a", "t", "h">>,
      Ownable |->
        <<"O", "w", "n", "a", "b", "l", "e">>,
      AccessControl |->
        <<"A", "c", "c", "e", "s", "s", "C", "o", "n", "t", "r", "o", "l">>,
      onlyOwner |->
        <<"o", "n", "l", "y", "O", "w", "n", "e", "r">>,
      function |->
        <<"f", "u", "n", "c", "t", "i", "o", "n">>,
      mint |->
        <<"m", "i", "n", "t", "(">>,
      burn |->
        <<"b", "u", "r", "n", "(">>,
      withdraw |->
        <<"w", "i", "t", "h", "d", "r", "a", "w", "(">>,
      for |->
        <<"f", "o", "r">>,
      length |->
        <<".", "l", "e", "n", "g", "t", "h">>,
      functionTransfer |->
        <<"f", "u", "n", "c", "t", "i", "o", "n", " ", "t", "r", "a", "n", "s", "f", "e", "r", "(">>,
      emitTransfer |->
        <<"e", "m", "i", "t", " ", "T", "r", "a", "n", "s", "f", "e", "r">>,
      floatingPragma |->
        <<"p", "r", "a", "g", "m", "a", " ", "s", "o", "l", "i", "d", "i", "t", "y", " ", "^">>,
      blockTimestamp |->
        <<"b", "l", "o", "c", "k", ".", "t", "i", "m", "e", "s", "t", "a", "m", "p">>,
      now |->
        <<"n", "o", "w">>,
      public |->
        <<"p", "u", "b", "l", "i", "c">>,
      private |->
        <<"p", "r", "i", "v", "a", "t", "e">>,
      internal |->
        <<"i", "n", "t", "e", "r", "n", "a", "l">>,
      external |->
        <<"e", "x", "t", "e", "r", "n", "a", "l">>,
      openzeppelin |->
        <<"@", "o", "p", "e", "n", "z", "e", "p", "p", "e", "l", "i", "n", "/", "c", "o", "n", "t", "r", "a", "c", "t", "s">>,
      SPDX |->
        <<"S", "P", "D", "X", "-", "L", "i", "c", "e", "n", "s", "e", "-", "I", "d", "e", "n", "t", "i", "f", "i", "e", "r">>,
      selfdestruct |->
        <<"s", "e", "l", "f", "d", "e", "s", "t", "r", "u", "c", "t">>,
      suicide |->
        <<"s", "u", "i", "c", "i", "d", "e">>,
      constructor |->
        <<"c", "o", "n", "s", "t", "r", "u", "c", "t", "o", "r", "(">> ]

LibLit ==
    [ callValue |->
        <<".", "c", "a", "l", "l", "{", "v", "a", "l", "u", "e", ":">>,
      transfer |->
        <<".", "t", "r", "a", "n", "s", "f", "e", "r", "(">>,
      blockTimestamp |->
        <<"b", "l", "o", "c", "k", ".", "t", "i", "m", "e", "s", "t", "a", "m", "p">>,
      call |->
        <<".", "c", "a", "l", "l", "(">>,
      delegatecall |->
        <<".", "d", "e", "l", "e", "g", "a", "t", "e", "c", "a", "l", "l", "(">>,
      selfdestruct |->
        <<"s", "e", "l", "f", "d", "e", "s", "t", "r", "u", "c", "t", "(">>,
      function |->
        <<"f", "u", "n", "c", "t", "i", "o", "n">>,
      public |->
        <<"p", "u", "b", "l", "i", "c">>,
      openzeppelin |->
        <<"@", "o", "p", "e", "n", "z", "e", "p", "p", "e", "l", "i", "n", "/", "c", "o", "n", "t", "r", "a", "c", "t", "s">>,
      slashes |->
        <<"/", "/">>,
      SPDX |->
        <<"S", "P", "D", "X", "-", "L", "i", "c", "e", "n", "s", "e", "-", "I", "d", "e", "n", "t", "i", "f", "i", "e", "r", ":">>,
      docOpen |->
        <<"/", "*", "*">>,
      title |->
        <<"@", "t", "i", "t", "l", "e">>,
      notice |->
        <<"@", "n", "o", "t", "i", "c", "e">>,
      dev |->
        <<"@", "d", "e", "v">>,
      param |->
        <<"@", "p", "a", "r", "a", "m">>,
      return |->
        <<"@", "r", "e", "t", "u", "r", "n">>,
      event |->
        <<"e", "v", "e", "n", "t">>,
      string |->
        <<"s", "t", "r", "i", "n", "g">> ]

DigitChars == <<"0", "1", "2", "3", "4", "5", "6", "7", "8", "9">>

Digits == {DigitChars[i] : i \in 1..10}              \* \d

WordChars == Letters \cup Digits \cup {"_"}          \* \w

Whitespace == {" ", "\n", "\t"}                      \* \s

-----------------------------------------------------------------------------
(* String.prototype.includes and the regular expressions of the route. *)

\* pat occurs in text at position i
StartsAt(text, pat, i) ==
    /\ i >= 1
    /\ i + Len(pat) - 1 <= Len(text)
    /\ \A j \in 1..Len(pat) : text[i + j - 1] = pat[j]

\* text.includes(pat)
Includes(text, pat) ==
    \E i \in 1..(Len(text) - Len(pat) + 1) : StartsAt(text, pat, i)

\* the first position >= i whose character is outside class (Len+1 if none)
RECURSIVE SkipWhile(_, _, _)
SkipWhile(text, i, class) ==
    IF i <= Len(text) /\ text[i] \in class
        THEN SkipWhile(text, i + 1, class)
        ELSE i

\* the first position >= i holding character ch (Len+1 if none)
RECURSIVE SkipUntil(_, _, _)
SkipUntil(text, i, ch) ==
    IF i <= Len(text) /\ text[i] # ch
        THEN SkipUntil(text, i + 1, ch)
        ELSE i

Min(S) == CHOOSE x \in S : \A y \in S : x <= y

\* the value of a run of decimal digits
RECURSIVE DigitsValue(_)
DigitsValue(ds) ==
    IF ds = <<>> THEN 0
    ELSE 10 * DigitsValue(SubSeq(ds, 1, Len(ds) - 1))
         + (CHOOSE n \in 0..9 : DigitChars[n + 1] = ds[Len(ds)])

RECURSIVE Pow10(_)
Pow10(k) == IF k = 0 THEN 1 ELSE 10 * Pow10(k - 1)

NoPragma == [matched |-> FALSE, int |-> <<>>, frac |-> <<>>]

\* /pragma solidity \^?(\d+\.\d+)/ tried at position i: the captured group
PragmaMatchAt(text, i) ==
    IF ~StartsAt(text, Lit.pragmaSolidity, i) THEN NoPragma
    ELSE LET a == i + Len(Lit.pragmaSolidity)
             b == IF a <= Len(text) /\ text[a] = "^" THEN a + 1 ELSE a
             c == SkipWhile(text, b, Digits)
             d == SkipWhile(text, c + 1, Digits)
         IN  IF c > b /\ c <= Len(text) /\ text[c] = "." /\ d > c + 1
                 THEN [matched |-> TRUE,
                       int |-> SubSeq(text, b, c - 1),
                       frac |-> SubSeq(text, c + 1, d - 1)]
                 ELSE NoPragma

\* code.match(/pragma solidity \^?(\d+\.\d+)/): the leftmost match
PragmaMatch(text) ==
    LET hits == {i \in 1..Len(text) : PragmaMatchAt(text, i).matched}
    IN  IF hits = {} THEN NoPragma ELSE PragmaMatchAt(text, Min(hits))

\* parseFloat(pragmaMatch[1]) < 0.8, on the exact decimal value int.frac
VersionBelow08(m) ==
    LET k == Len(m.frac)
    IN  10 * (DigitsValue(m.int) * Pow10(k) + DigitsValue(m.frac)) < 8 * Pow10(k)

\* code.match(/for\s*\(/g) is not null
HasForLoop(text) ==
    \E i \in 1..Len(text) :
        /\ StartsAt(text, Lit.for, i)
        /\ LET j == SkipWhile(text, i + Len(Lit.for), Whitespace)
           IN  j <= Len(text) /\ text[j] = "("

\* the visibility keyword that starts at position i, or <<>>
VisibilityAt(text, i) ==
    IF StartsAt(text, Lit.public, i) THEN Lit.public
    ELSE IF StartsAt(text, Lit.private, i) THEN Lit.private
    ELSE IF StartsAt(text, Lit.internal, i) THEN Lit.internal
    ELSE IF StartsAt(text, Lit.external, i) THEN Lit.external
    ELSE <<>>

\* /function\s+\w+\s*\([^)]*\)/ tried at position i: the position of the
\* closing parenthesis, 0 when there is no match
FunctionHeadEnd(text, i) ==
    IF ~StartsAt(text, Lit.function, i) THEN 0
    ELSE LET a == i + Len(Lit.function)
             b == SkipWhile(text, a, Whitespace)
             c == SkipWhile(text, b, WordChars)
             d == SkipWhile(text, c, Whitespace)
             e == SkipUntil(text, d + 1, ")")
         IN  IF b > a /\ c > b /\ d <= Len(text) /\ text[d] = "(" /\ e <= Len(text)
                 THEN e
                 ELSE 0

\* /function\s+\w+\s*\([^)]*\)\s*(?:public|private|internal|external)?/ tried
\* at position i: the last position of the match, 0 when there is none
FunctionMatchEnd(text, i) ==
    LET e == FunctionHeadEnd(text, i)
        f == SkipWhile(text, e + 1, Whitespace)
    IN  IF e > 0 THEN f + Len(VisibilityAt(text, f)) - 1 ELSE 0

\* code.match(/function...?/g): the non-overlapping matches, left to right
RECURSIVE FunctionMatches(_, _)
FunctionMatches(text, from) ==
    LET hits == {i \in from..Len(text) : FunctionMatchEnd(text, i) > 0}
    IN  IF hits = {} THEN <<>>
        ELSE LET i == Min(hits)
                 e == FunctionMatchEnd(text, i)
             IN  <<SubSeq(text, i, e)>> \o FunctionMatches(text, e + 1)

\* functionMatches.filter(f => no visibility keyword in f).length > 0
HasMissingVisibility(text) ==
    LET ms == FunctionMatches(text, 1)
    IN  \E n \in 1..Len(ms) :
            /\ ~Includes(ms[n], Lit.public)
            /\ ~Includes(ms[n], Lit.private)
            /\ ~Includes(ms[n], Lit.internal)
            /\ ~Includes(ms[n], Lit.external)

-----------------------------------------------------------------------------
(* The fourteen rules of POST /api/security. Each yields the sequence it   *)
(* pushes on `issues`: one issue or none.                                   *)

\* the reentrancy rule reporting the severity the library catalog gives it
ReentrancyRuleHigh(text) ==
    IF /\ Includes(text, Lit.callValue)
       /\ ~Includes(text, Lit.ReentrancyGuard)
       /\ ~Includes(text, Lit.nonReentrant)
    THEN << [severity |-> "high",
             title |-> "Potential Reentrancy Vulnerability",
             description |-> "Contract uses low-level call with value without reentrancy protection",
             recommendation |-> "Import and use OpenZeppelin's ReentrancyGuard modifier on external functions that transfer value"] >>
    ELSE <<>>

\* 1. reentrancy
ReentrancyRule(text) ==
    IF /\ Includes(text, Lit.callValue)
       /\ ~Includes(text, Lit.ReentrancyGuard)
       /\ ~Includes(text, Lit.nonReentrant)
    THEN << [severity |-> "critical",
             title |-> "Potential Reentrancy Vulnerability",
             description |-> "Contract uses low-level call with value without reentrancy protection",
             recommendation |-> "Import and use OpenZeppelin's ReentrancyGuard modifier on external functions that transfer value"] >>
    ELSE <<>>

\* 2. unchecked external calls
\* a rule that reports every call it finds
UncheckedCallRulePerCall(text) ==
    IF /\ (Includes(text, Lit.call) \/ Includes(text, Lit.delegatecall))
       /\ ~Includes(text, Lit.require)
       /\ ~Includes(text, Lit.revert)
    THEN LET finding == [severity |-> "high",
                         title |-> "Unchecked External Call",
                         description |-> "External calls should always check return values",
                         recommendation |-> "Add require() or if-revert checks after external calls"]
         IN  [n \in 1..Cardinality({i \in 1..Len(text) :
                                       \/ StartsAt(text, Lit.call, i)
                                       \/ StartsAt(text, Lit.delegatecall, i)})
                 |-> finding]
    ELSE <<>>

UncheckedCallRule(text) ==
    IF /\ (Includes(text, Lit.call) \/ Includes(text, Lit.delegatecall))
       /\ ~Includes(text, Lit.require)
       /\ ~Includes(text, Lit.revert)
    THEN << [severity |-> "high",
             title |-> "Unchecked External Call",
             description |-> "External calls should always check return values",
             recommendation |-> "Add require() or if-revert checks after external calls"] >>
    ELSE <<>>

\* 3. tx.origin
TxOriginRule(text) ==
    IF Includes(text, Lit.txOrigin)
    THEN << [severity |-> "high",
             title |-> "Use of tx.origin for Authorization",
             description |-> "tx.origin should not be used for authorization as it's vulnerable to phishing attacks",
             recommendation |-> "Use msg.sender instead of tx.origin"] >>
    ELSE <<>>

\* 4. unchecked arithmetic (pre-0.8.0)
OverflowRule(text) ==
    LET pragmaMatch == PragmaMatch(text)
    IN  IF /\ pragmaMatch.matched
           /\ VersionBelow08(pragmaMatch)
           /\ ~Includes(text, Lit.SafeMath)
        THEN << [severity |-> "critical",
                 title |-> "Integer Overflow/Underflow Risk",
                 description |-> "Solidity < 0.8.0 requires SafeMath library for arithmetic operations",
                 recommendation |-> "Upgrade to Solidity ^0.8.0 or use OpenZeppelin's SafeMath"] >>
        ELSE <<>>

\* 5. access control
AccessControlRule(text) ==
    IF /\ ~Includes(text, Lit.Ownable)
       /\ ~Includes(text, Lit.AccessControl)
       /\ ~Includes(text, Lit.onlyOwner)
       /\ Includes(text, Lit.function)
       /\ \/ Includes(text, Lit.mint)
          \/ Includes(text, Lit.burn)
          \/ Includes(text, Lit.withdraw)
    THEN << [severity |-> "high",
             title |-> "Missing Access Control",
             description |-> "Privileged functions detected without proper access control",
             recommendation |-> "Import OpenZeppelin's Ownable or AccessControl and protect sensitive functions"] >>
    ELSE <<>>

\* 6. denial of service with loops
UnboundedLoopRule(text) ==
    IF HasForLoop(text) /\ Includes(text, Lit.length)
    THEN << [severity |-> "medium",
             title |-> "Potential DoS with Unbounded Loop",
             description |-> "Loops over dynamic arrays can run out of gas",
             recommendation |-> "Add limits to array sizes or implement pagination"] >>
    ELSE <<>>

\* 7. event emission
MissingEventRule(text) ==
    IF Includes(text, Lit.functionTransfer) /\ ~Includes(text, Lit.emitTransfer)
    THEN << [severity |-> "medium",
             title |-> "Missing Event Emission",
             description |-> "State-changing functions should emit events",
             recommendation |-> "Add event declarations and emit them in critical functions"] >>
    ELSE <<>>

\* 8. floating pragma
FloatingPragmaRule(text) ==
    IF Includes(text, Lit.floatingPragma)
    THEN << [severity |-> "low",
             title |-> "Floating Pragma",
             description |-> "Using ^ allows compilation with future compiler versions that may have bugs",
             recommendation |-> "Lock pragma to a specific version for production contracts"] >>
    ELSE <<>>

\* 9. block timestamp
TimestampRule(text) ==
    IF Includes(text, Lit.blockTimestamp) \/ Includes(text, Lit.now)
    THEN << [severity |-> "low",
             title |-> "Block Timestamp Dependency",
             description |-> "Block timestamps can be manipulated by miners within a short range",
             recommendation |-> "Avoid using timestamps for critical logic or accept ~15 second variance"] >>
    ELSE <<>>

\* 10. visibility
VisibilityRule(text) ==
    IF HasMissingVisibility(text)
    THEN << [severity |-> "medium",
             title |-> "Missing Function Visibility",
             description |-> "Functions without explicit visibility are public by default in older versions",
             recommendation |-> "Explicitly declare visibility for all functions"] >>
    ELSE <<>>

\* the audited-library rule reported as a scored finding
OpenZeppelinRuleLow(text) ==
    IF Includes(text, Lit.openzeppelin)
    THEN << [severity |-> "low",
             title |-> "Uses OpenZeppelin Contracts",
             description |-> "Contract uses battle-tested OpenZeppelin libraries",
             recommendation |-> "Good practice - continue using audited libraries"] >>
    ELSE <<>>

\* 11. OpenZeppelin imports (the recommendation's leading check-mark glyph is
\* not representable in a TLA+ string and is left out)
OpenZeppelinRule(text) ==
    IF Includes(text, Lit.openzeppelin)
    THEN << [severity |-> "info",
             title |-> "Uses OpenZeppelin Contracts",
             description |-> "Contract uses battle-tested OpenZeppelin libraries",
             recommendation |-> "Good practice - continue using audited libraries"] >>
    ELSE <<>>

\* the license rule with its negation dropped
SPDXRuleInverted(text) ==
    IF Includes(text, Lit.SPDX)
    THEN << [severity |-> "low",
             title |-> "Missing SPDX License Identifier",
             description |-> "All source files should specify a license",
             recommendation |-> "Add // SPDX-License-Identifier: MIT at the top of the file"] >>
    ELSE <<>>

\* 12. SPDX license
SPDXRule(text) ==
    IF ~Includes(text, Lit.SPDX)
    THEN << [severity |-> "low",
             title |-> "Missing SPDX License Identifier",
             description |-> "All source files should specify a license",
             recommendation |-> "Add // SPDX-License-Identifier: MIT at the top of the file"] >>
    ELSE <<>>

\* 13. selfdestruct
SelfdestructRule(text) ==
    IF Includes(text, Lit.selfdestruct) \/ Includes(text, Lit.suicide)
    THEN << [severity |-> "critical",
             title |-> "Use of selfdestruct",
             description |-> "selfdestruct can permanently destroy contract and funds",
             recommendation |-> "Remove selfdestruct or add multiple layers of access control with timelock"] >>
    ELSE <<>>

\* 14. constructor
ConstructorRule(text) ==
    IF ~Includes(text, Lit.constructor)
    THEN << [severity |-> "info",
             title |-> "No Constructor Defined",
             description |-> "Contract has no constructor for initialization",
             recommendation |-> "Add constructor if initial setup is needed"] >>
    ELSE <<>>

\* the `issues` array after the fourteen checks, in the order they run
\* the license rule evaluated ahead of the others
IssuesLicenseFirst(text) ==
    SPDXRule(text)
    \o ReentrancyRule(text) \o UncheckedCallRule(text) \o TxOriginRule(text)
    \o OverflowRule(text) \o AccessControlRule(text) \o UnboundedLoopRule(text)
    \o MissingEventRule(text) \o FloatingPragmaRule(text) \o TimestampRule(text)
    \o VisibilityRule(text) \o OpenZeppelinRule(text)
    \o SelfdestructRule(text) \o ConstructorRule(text)

\* the issues array after the fourteen rules, in the order they are evaluated
Issues(text) ==
    ReentrancyRule(text) \o UncheckedCallRule(text) \o TxOriginRule(text)
    \o OverflowRule(text) \o AccessControlRule(text) \o UnboundedLoopRule(text)
    \o MissingEventRule(text) \o FloatingPragmaRule(text) \o TimestampRule(text)
    \o VisibilityRule(text) \o OpenZeppelinRule(text) \o SPDXRule(text)
    \o SelfdestructRule(text) \o ConstructorRule(text)

-----------------------------------------------------------------------------
(* Scoring and the report of POST /api/security. *)

\* a weight table with a slip in one entry
SeverityWeightLowOne(severity) ==
    CASE severity = "critical" -> 10
      [] severity = "high"     -> 7
      [] severity = "medium"   -> 4
      [] severity = "low"      -> 1
      [] severity = "info"     -> 0
      [] OTHER                 -> 0

\* a weight table in which informational issues count
SeverityWeightInfoOne(severity) ==
    CASE severity = "critical" -> 10
      [] severity = "high"     -> 7
      [] severity = "medium"   -> 4
      [] severity = "low"      -> 2
      [] severity = "info"     -> 1
      [] OTHER                 -> 0

\* the switch inside the reduce: what one issue adds to the score
SeverityWeight(severity) ==
    CASE severity = "critical" -> 10
      [] severity = "high"     -> 7
      [] severity = "medium"   -> 4
      [] severity = "low"      -> 2
      [] severity = "info"     -> 0
      [] OTHER                 -> 0

\* issues.reduce((score, issue) => score + weight, 0)
RECURSIVE RiskScore(_)
RiskScore(issues) ==
    IF issues = <<>> THEN 0
    ELSE RiskScore(SubSeq(issues, 1, Len(issues) - 1))
         + SeverityWeight(issues[Len(issues)].severity)

\* a classification with the labels of two bands exchanged
RiskLevelSwapped(riskScore) ==
    IF riskScore > 20 THEN "High Risk"
    ELSE IF riskScore > 10 THEN "Low Risk"
    ELSE IF riskScore > 5 THEN "Medium Risk"
    ELSE "Minimal Risk"

RiskLevel(riskScore) ==
    IF riskScore > 20 THEN "High Risk"
    ELSE IF riskScore > 10 THEN "Medium Risk"
    ELSE IF riskScore > 5 THEN "Low Risk"
    ELSE "Minimal Risk"

\* issues.filter(i => i.severity === severity).length
CountSeverity(issues, severity) ==
    Cardinality({n \in 1..Len(issues) : issues[n].severity = severity})

\* the messages are the source's without their leading emoji
DeploymentRecommendation(criticalCount, highCount, mediumCount) ==
    IF criticalCount > 0
        THEN "DEPLOYMENT NOT RECOMMENDED - Critical vulnerabilities detected. Fix immediately."
    ELSE IF highCount > 0
        THEN "DEPLOY WITH CAUTION - High severity issues detected. Review carefully."
    ELSE IF mediumCount > 0
        THEN "DEPLOYABLE - Medium issues detected. Consider fixing for production."
    ELSE "SAFE TO DEPLOY - No critical issues detected. Standard best practices followed."

\* a summary that leaves out the key of a severity with no issue
SummarySparse(issues) ==
    LET all == [critical |-> CountSeverity(issues, "critical"),
                high     |-> CountSeverity(issues, "high"),
                medium   |-> CountSeverity(issues, "medium"),
                low      |-> CountSeverity(issues, "low"),
                info     |-> CountSeverity(issues, "info")]
    IN  [k \in {key \in DOMAIN all : all[key] > 0} |-> all[k]]

Summary(issues) ==
    [critical |-> CountSeverity(issues, "critical"),
     high     |-> CountSeverity(issues, "high"),
     medium   |-> CountSeverity(issues, "medium"),
     low      |-> CountSeverity(issues, "low"),
     info     |-> CountSeverity(issues, "info")]

\* a report whose disclaimer carries the instant of the run
AnalysisDatedDisclaimer(issues, t) ==
    [riskLevel  |-> RiskLevel(RiskScore(issues)),
     riskScore  |-> RiskScore(issues),
     deploymentRecommendation |->
         DeploymentRecommendation(CountSeverity(issues, "critical"),
                                  CountSeverity(issues, "high"),
                                  CountSeverity(issues, "medium")),
     summary    |-> Summary(issues),
     issues     |-> issues,
     timestamp  |-> t,
     disclaimer |-> <<"This is an automated analysis of", t>>]

\* the `analysis` object of the success response; t is the instant new Date()
\* reads (toISOString is one-to-one on instants, so the instant stands for it)
Analysis(issues, t) ==
    [riskLevel  |-> RiskLevel(RiskScore(issues)),
     riskScore  |-> RiskScore(issues),
     deploymentRecommendation |->
         DeploymentRecommendation(CountSeverity(issues, "critical"),
                                  CountSeverity(issues, "high"),
                                  CountSeverity(issues, "medium")),
     summary    |-> Summary(issues),
     issues     |-> issues,
     timestamp  |-> t,
     disclaimer |-> "This is an automated analysis. Professional audit recommended for production contracts."]

\* !code is false
Truthy(c) ==
    CASE c.kind = "string"  -> c.text # <<>>
      [] c.kind = "number"  -> c.num # 0
      [] c.kind = "array"   -> TRUE
      [] c.kind = "object"  -> TRUE
      [] OTHER              -> FALSE          \* undefined, null

NoResponse == [status |-> 0]

\* the titles of the fourteen rules in the order the handler evaluates them
RouteCatalog ==
    << "Potential Reentrancy Vulnerability",
       "Unchecked External Call",
       "Use of tx.origin for Authorization",
       "Integer Overflow/Underflow Risk",
       "Missing Access Control",
       "Potential DoS with Unbounded Loop",
       "Missing Event Emission",
       "Floating Pragma",
       "Block Timestamp Dependency",
       "Missing Function Visibility",
       "Uses OpenZeppelin Contracts",
       "Missing SPDX License Identifier",
       "Use of selfdestruct",
       "No Constructor Defined" >>

\* The first rule whose detector throws on the truthy value c, 0 when none
\* does: a string has includes and match; an array has includes only, so
\* rules 1 to 3 run and code.match of rule 4 throws; a number or an object
\* has neither, so code.includes of rule 1 throws.
FirstThrowingRule(c) ==
    IF c.kind = "string" THEN 0
    ELSE IF c.kind = "array" THEN 4
    ELSE 1

\* the handler: the response to a body whose `code` member is c, at instant t.
\* A number or an object has no includes method (the first rule throws); an
\* array has includes but no match (the fourth rule throws); the catch turns
\* the TypeError into a 500.
Handler(c, t) ==
    IF ~Truthy(c)
        THEN [status |-> 400, error |-> "Contract code required"]
    ELSE IF FirstThrowingRule(c) = 0
        THEN [status |-> 200, success |-> TRUE,
              analysis |-> Analysis(Issues(c.text), t)]
    ELSE IF FirstThrowingRule(c) = 4
        THEN [status |-> 500, success |-> FALSE,
              error |-> "code.match is not a function"]
    ELSE [status |-> 500, success |-> FALSE,
          error |-> "code.includes is not a function"]

-----------------------------------------------------------------------------
(* lib/securityAnalyzer.js: analyzeContract. *)

\* for a literal pattern: at each position, the last position of the match
\* that starts there, 0 when none starts there
LiteralEnds(text, pat) ==
    [i \in 1..Len(text) |-> IF StartsAt(text, pat, i) THEN i + Len(pat) - 1 ELSE 0]

\* the same for /function\s+\w+\s*\([^)]*\)\s+public/
PublicFunctionEnds(text) ==
    [i \in 1..Len(text) |->
        LET e == FunctionHeadEnd(text, i)
            f == SkipWhile(text, e + 1, Whitespace)
        IN  IF e > 0 /\ f > e + 1 /\ StartsAt(text, LibLit.public, f)
                THEN f + Len(LibLit.public) - 1
                ELSE 0]

\* sourceCode.match(new RegExp(pattern, 'g')): the number of matches found
\* scanning left to right from position `from`, each search starting after
\* the previous match (0 stands for null)
RECURSIVE CountMatches(_, _, _)
CountMatches(ends, n, from) ==
    LET hits == {i \in from..n : ends[i] > 0}
    IN  IF hits = {} THEN 0
        ELSE 1 + CountMatches(ends, n, ends[Min(hits)] + 1)

VULNERABILITY_PATTERNS ==
    << [name |-> "Reentrancy", risk |-> "HIGH",
        description |-> "Potential reentrancy vulnerability detected. Use ReentrancyGuard.",
        recommendation |-> "Import and use OpenZeppelin ReentrancyGuard modifier."],
       [name |-> "Unchecked Transfer", risk |-> "MEDIUM",
        description |-> "Using .transfer() can fail with gas limit changes.",
        recommendation |-> "Use .call{value:}() with proper checks instead."],
       [name |-> "Timestamp Dependency", risk |-> "LOW",
        description |-> "Timestamp dependency detected. Can be manipulated by miners.",
        recommendation |-> "Avoid critical logic based solely on block.timestamp."],
       [name |-> "Unchecked External Call", risk |-> "MEDIUM",
        description |-> "External call without proper checks detected.",
        recommendation |-> "Always check return values of external calls."],
       [name |-> "Delegatecall", risk |-> "CRITICAL",
        description |-> "Delegatecall can be dangerous if not properly secured.",
        recommendation |-> "Ensure delegatecall targets are trusted and immutable."],
       [name |-> "Selfdestruct", risk |-> "CRITICAL",
        description |-> "Selfdestruct can lead to loss of funds.",
        recommendation |-> "Avoid selfdestruct or add strict access control."],
       [name |-> "Missing Access Control", risk |-> "MEDIUM",
        description |-> "Public functions should have proper access control.",
        recommendation |-> "Use onlyOwner or role-based access control for sensitive functions."] >>

\* the `pattern` member of the k-th entry, as its match positions in text
PatternEnds(k, text) ==
    CASE k = 1 -> LiteralEnds(text, LibLit.callValue)
      [] k = 2 -> LiteralEnds(text, LibLit.transfer)
      [] k = 3 -> LiteralEnds(text, LibLit.blockTimestamp)
      [] k = 4 -> LiteralEnds(text, LibLit.call)
      [] k = 5 -> LiteralEnds(text, LibLit.delegatecall)
      [] k = 6 -> LiteralEnds(text, LibLit.selfdestruct)
      [] k = 7 -> PublicFunctionEnds(text)

\* VULNERABILITY_PATTERNS.forEach from entry k on: results.vulnerabilities
RECURSIVE Vulnerabilities(_, _)
Vulnerabilities(text, k) ==
    IF k > Len(VULNERABILITY_PATTERNS) THEN <<>>
    ELSE LET vuln == VULNERABILITY_PATTERNS[k]
             count == CountMatches(PatternEnds(k, text), Len(text), 1)
         IN  (IF count > 0
                  THEN << [name |-> vuln.name, risk |-> vuln.risk, count |-> count,
                           description |-> vuln.description,
                           recommendation |-> vuln.recommendation] >>
                  ELSE <<>>)
             \o Vulnerabilities(text, k + 1)

\* The end of the match of a BEST_PRACTICES pattern that starts at i, or 0.
\* /\/\/\s*SPDX-License-Identifier:/
SPDXCommentAt(text, i) ==
    LET a == SkipWhile(text, i + Len(LibLit.slashes), Whitespace)
    IN  IF StartsAt(text, LibLit.slashes, i) /\ StartsAt(text, LibLit.SPDX, a)
            THEN a + Len(LibLit.SPDX) - 1
            ELSE 0

\* /\/\*\*[\s\S]*?@(title|notice|dev|param|return)/ : the lazy star stops at
\* the first tag after the opening
NatSpecAt(text, i) ==
    LET TagAt(j) ==
            IF StartsAt(text, LibLit.title, j) THEN Len(LibLit.title)
            ELSE IF StartsAt(text, LibLit.notice, j) THEN Len(LibLit.notice)
            ELSE IF StartsAt(text, LibLit.dev, j) THEN Len(LibLit.dev)
            ELSE IF StartsAt(text, LibLit.param, j) THEN Len(LibLit.param)
            ELSE IF StartsAt(text, LibLit.return, j) THEN Len(LibLit.return)
            ELSE 0
        tags == {j \in (i + Len(LibLit.docOpen))..Len(text) : TagAt(j) > 0}
    IN  IF StartsAt(text, LibLit.docOpen, i) /\ tags # {}
            THEN LET j == CHOOSE j \in tags : \A m \in tags : j <= m
                 IN  j + TagAt(j) - 1
            ELSE 0

\* /event\s+\w+/
EventAt(text, i) ==
    LET a == i + Len(LibLit.event)
        b == SkipWhile(text, a, Whitespace)
    IN  IF /\ StartsAt(text, LibLit.event, i)
           /\ b > a /\ b <= Len(text) /\ text[b] \in WordChars
            THEN SkipWhile(text, b, WordChars) - 1
            ELSE 0

\* /\/\/\s*SPDX-License-Identifier:/.test(sourceCode)
HasSPDXComment(text) == \E i \in 1..Len(text) : SPDXCommentAt(text, i) > 0

\* /\/\*\*[\s\S]*?@(title|notice|dev|param|return)/.test(sourceCode)
HasNatSpec(text) == \E i \in 1..Len(text) : NatSpecAt(text, i) > 0

\* /event\s+\w+/.test(sourceCode)
HasEvent(text) == \E i \in 1..Len(text) : EventAt(text, i) > 0

\* BEST_PRACTICES: the name, the expected presence and the description of
\* each practice, in the order of the array
BEST_PRACTICES ==
    << [name |-> "OpenZeppelin Import", present |-> TRUE,
        description |-> "Using OpenZeppelin contracts (recommended)"],
       [name |-> "SPDX License", present |-> TRUE,
        description |-> "SPDX license identifier present"],
       [name |-> "NatSpec Comments", present |-> TRUE,
        description |-> "NatSpec documentation present"],
       [name |-> "Events", present |-> TRUE,
        description |-> "Events defined for important state changes"] >>

\* the end of the match of practice k's pattern that starts at i, or 0
PracticeMatchAt(k, text, i) ==
    CASE k = 1 -> IF StartsAt(text, LibLit.openzeppelin, i)
                      THEN i + Len(LibLit.openzeppelin) - 1 ELSE 0
      [] k = 2 -> SPDXCommentAt(text, i)
      [] k = 3 -> NatSpecAt(text, i)
      [] k = 4 -> EventAt(text, i)

\* patterns written with the g flag
PracticeGlobalAll(k) == TRUE

\* whether the pattern literal of practice k carries the g flag: none does
PracticeGlobal(k) == FALSE

\* The regex objects of the two catalogs are created once, when the module
\* loads, and every call shares them: their lastIndex is the only state a
\* call could leave behind.
FreshLastIndex ==
    [vulnerability |-> [k \in 1..Len(VULNERABILITY_PATTERNS) |-> 0],
     practice      |-> [k \in 1..Len(BEST_PRACTICES) |-> 0]]

\* practice.pattern.test(sourceCode) on a regex whose lastIndex is li
\* (RegExpBuiltinExec): a regex without the g flag searches from 0 and leaves
\* lastIndex alone; a global one searches from lastIndex and moves it to the
\* end of the match, or back to 0 when there is none.
\* The start of the leftmost match at or after lastIndex, or 0.
TestMatch(k, text, li) ==
    LET from == IF PracticeGlobal(k) THEN li + 1 ELSE 1
        starts == {i \in from..Len(text) : PracticeMatchAt(k, text, i) > 0}
    IN  IF starts = {} THEN 0 ELSE Min(starts)

\* the value test returns
TestFound(k, text, li) ==
    IF PracticeGlobal(k)
        THEN TestMatch(k, text, li) > 0
        ELSE \E i \in 1..Len(text) : PracticeMatchAt(k, text, i) > 0

\* the lastIndex test leaves
TestLastIndex(k, text, li) ==
    IF PracticeGlobal(k)
        THEN LET first == TestMatch(k, text, li)
             IN  IF first > 0 THEN PracticeMatchAt(k, text, first) ELSE 0
        ELSE li

\* a checklist that lists only the practices that passed
BestPracticesPassedOnly(text, li) ==
    SelectSeq([k \in 1..Len(BEST_PRACTICES) |->
                  [name |-> BEST_PRACTICES[k].name,
                   passed |-> (TestFound(k, text, li.practice[k])
                                   = BEST_PRACTICES[k].present),
                   description |-> BEST_PRACTICES[k].description]],
              LAMBDA entry : entry.passed)

\* BEST_PRACTICES.forEach: one entry per practice, passed = (found === present)
BestPractices(text, li) ==
    [k \in 1..Len(BEST_PRACTICES) |->
        [name |-> BEST_PRACTICES[k].name,
         passed |-> (TestFound(k, text, li.practice[k])
                         = BEST_PRACTICES[k].present),
         description |-> BEST_PRACTICES[k].description]]

GasOptimizations(text) ==
    (IF Includes(text, LibLit.public)
        THEN << [type |-> "Visibility",
                 suggestion |-> "Use external instead of public for functions only called externally",
                 impact |-> "LOW"] >>
        ELSE <<>>)
    \o
    (IF Includes(text, LibLit.string)
        THEN << [type |-> "Storage",
                 suggestion |-> "Consider using bytes32 instead of string for fixed-length data",
                 impact |-> "MEDIUM"] >>
        ELSE <<>>)

\* the overall risk, the safeToDeploy flag and the warning (without its emoji)
OverallRisk(vulnerabilities) ==
    LET criticalVulns == {n \in 1..Len(vulnerabilities) : vulnerabilities[n].risk = "CRITICAL"}
        highVulns == {n \in 1..Len(vulnerabilities) : vulnerabilities[n].risk = "HIGH"}
    IN  IF criticalVulns # {}
            THEN [overallRisk |-> "CRITICAL", safeToDeploy |-> FALSE,
                  warning |-> "CRITICAL vulnerabilities found - DO NOT DEPLOY"]
        ELSE IF highVulns # {}
            THEN [overallRisk |-> "HIGH", safeToDeploy |-> FALSE,
                  warning |-> "HIGH risk vulnerabilities found - Review carefully"]
        ELSE IF Len(vulnerabilities) > 0
            THEN [overallRisk |-> "MEDIUM", safeToDeploy |-> TRUE,
                  warning |-> "Medium/Low risks found - Review recommended"]
        ELSE [overallRisk |-> "LOW", safeToDeploy |-> TRUE,
              warning |-> "No major vulnerabilities detected"]

\* the object analyzeContract(sourceCode) returns when the shared regex
\* objects stand at li
analyzeContract(sourceCode, li) ==
    LET vulnerabilities == Vulnerabilities(sourceCode, 1)
        verdict == OverallRisk(vulnerabilities)
    IN  [vulnerabilities  |-> vulnerabilities,
         bestPractices    |-> BestPractices(sourceCode, li),
         gasOptimizations |-> GasOptimizations(sourceCode),
         overallRisk      |-> verdict.overallRisk,
         safeToDP         |-> FALSE,
         safeToDeploy     |-> verdict.safeToDeploy,
         warnings         |-> <<verdict.warning>>]

NoResult == [outcome |-> "none"]

\* a call of analyzeContract with the value c: a value that is not a string
\* has no match method, and the first pattern throws a TypeError
LibCall(c, li) ==
    IF c.kind = "string"
        THEN [outcome |-> "returned", results |-> analyzeContract(c.text, li)]
        ELSE [outcome |-> "TypeError"]

\* The shared regex objects after that call. sourceCode.match runs on a copy,
\* new RegExp(vuln.pattern, 'g'), so the catalog's own vulnerability patterns
\* are never executed; a TypeError leaves before any practice is tested.
LastIndexAfter(c, li) ==
    IF c.kind = "string"
        THEN [vulnerability |-> li.vulnerability,
              practice |-> [k \in 1..Len(BEST_PRACTICES) |->
                               TestLastIndex(k, c.text, li.practice[k])]]
        ELSE li

-----------------------------------------------------------------------------
(* The inputs: contract sources assembled from lines that hold the texts   *)
(* the rules look for, and the non-string JSON values a body can carry.    *)

Fragment ==
    << <<"s", "t", "r", "i", "n", "g", " ", "s">>,
       <<"e", "v", "e", "n", "t", " ", "S", "e", "n", "t">>,
       <<"a", ".", "c", "a", "l", "l", "{", "v", "a", "l", "u", "e", ":", " ", "1", "}">>,
       <<"R", "e", "e", "n", "t", "r", "a", "n", "c", "y", "G", "u", "a", "r", "d">>,
       <<"n", "o", "n", "R", "e", "e", "n", "t", "r", "a", "n", "t">>,
       <<"t", ".", "c", "a", "l", "l", "(", "d", ")", ";", " ", "u", ".", "c", "a", "l", "l", "(", "d", ")">>,
       <<"t", ".", "d", "e", "l", "e", "g", "a", "t", "e", "c", "a", "l", "l", "(", "d", ")">>,
       <<"r", "e", "q", "u", "i", "r", "e", "(", "o", "k", ")">>,
       <<"t", "x", ".", "o", "r", "i", "g", "i", "n">>,
       <<"p", "r", "a", "g", "m", "a", " ", "s", "o", "l", "i", "d", "i", "t", "y", " ", "^", "0", ".", "7", ".", "0", ";">>,
       <<"p", "r", "a", "g", "m", "a", " ", "s", "o", "l", "i", "d", "i", "t", "y", " ", "0", ".", "8", ".", "2", "0", ";">>,
       <<"S", "a", "f", "e", "M", "a", "t", "h">>,
       <<"f", "u", "n", "c", "t", "i", "o", "n", " ", "m", "i", "n", "t", "(", ")", " ", "p", "u", "b", "l", "i", "c">>,
       <<"O", "w", "n", "a", "b", "l", "e">>,
       <<"f", "o", "r", " ", "(", "i", " ", "<", " ", "a", ".", "l", "e", "n", "g", "t", "h">>,
       <<"f", "u", "n", "c", "t", "i", "o", "n", " ", "t", "r", "a", "n", "s", "f", "e", "r", "(", ")">>,
       <<"e", "m", "i", "t", " ", "T", "r", "a", "n", "s", "f", "e", "r">>,
       <<"b", "l", "o", "c", "k", ".", "t", "i", "m", "e", "s", "t", "a", "m", "p">>,
       <<"@", "o", "p", "e", "n", "z", "e", "p", "p", "e", "l", "i", "n", "/", "c", "o", "n", "t", "r", "a", "c", "t", "s">>,
       <<"s", "e", "l", "f", "d", "e", "s", "t", "r", "u", "c", "t", "(", "o", ")">>,
       <<"c", "o", "n", "s", "t", "r", "u", "c", "t", "o", "r", "(", ")">> >>

LicenseHeader ==
    <<"/", "/", " ", "S", "P", "D", "X", "-", "L", "i", "c", "e", "n", "s", "e", "-", "I", "d", "e", "n", "t", "i", "f", "i", "e", "r", ":", " ", "M", "I", "T">>

\* the sets of at most k line numbers
RECURSIVE FragSets(_)
FragSets(k) ==
    IF k = 0 THEN {{}}
    ELSE LET smaller == FragSets(k - 1)
         IN  smaller \cup {S \cup {i} : S \in smaller, i \in 1..Len(Fragment)}

\* the chosen lines in file order
RECURSIVE Lines(_)
Lines(S) ==
    IF S = {} THEN <<>>
    ELSE LET i == Min(S) IN <<Fragment[i]>> \o Lines(S \ {i})

RECURSIVE JoinLines(_)
JoinLines(lines) ==
    IF lines = <<>> THEN <<>>
    ELSE IF Len(lines) = 1 THEN lines[1]
    ELSE lines[1] \o <<"\n">> \o JoinLines(Tail(lines))

Sources ==
    {JoinLines((IF licensed THEN <<LicenseHeader>> ELSE <<>>) \o Lines(S)) :
        licensed \in BOOLEAN, S \in FragSets(MaxFrags)}

StringInput(text) == [kind |-> "string", text |-> text, num |-> 0]

NonStringInputs ==
    {[kind |-> k, text |-> <<>>, num |-> 0] :
        k \in {"undefined", "null", "array", "object"}}
    \cup {[kind |-> "number", text |-> <<>>, num |-> n] : n \in {0, 42}}

Inputs == {StringInput(text) : text \in Sources} \cup NonStringInputs

-----------------------------------------------------------------------------
(* contracts/HighSpeedDEX.sol: the pools, the providers' liquidity and the *)
(* swap fee. A poolId, keccak256(abi.encodePacked(tokenA, tokenB)), is the *)
(* ordered pair of the two addresses.                                       *)

ZeroAddress == "address(0)"

\* the token contracts and the accounts of the test fixture
Tokens == {"tokenA", "tokenB"}

Owner == "owner"

Accounts == {Owner, "trader1"}

PoolIds == {<<a, b>> : a \in Tokens, b \in Tokens}

\* the value of pools[poolId] that was never written
NoPool ==
    [tokenA |-> ZeroAddress, tokenB |-> ZeroAddress,
     reserveA |-> 0, reserveB |-> 0, totalLiquidity |-> 0]

FEE_DENOMINATOR == 1000

InitialSwapFee == 3

MaxSwapFee == 30

NoCall == [fn |-> "none", sender |-> ZeroAddress, args |-> <<>>, outcome |-> "none"]

\* function sqrt(uint256 x): the Babylonian iteration
RECURSIVE SqrtLoop(_, _, _)
SqrtLoop(x, y, z) == IF z < y THEN SqrtLoop(x, z, (x \div z + z) \div 2) ELSE y

sqrt(x) == IF x = 0 THEN 0 ELSE SqrtLoop(x, x, (x + 1) \div 2)

min(a, b) == IF a < b THEN a ELSE b

\* a createPool that does not look the pool up
CreatePoolRevertNoExistsCheck(tokenA, tokenB) ==
    IF tokenA = tokenB THEN "Identical tokens"
    ELSE IF tokenA = ZeroAddress \/ tokenB = ZeroAddress THEN "Zero address"
    ELSE ""

\* createPool: the require that fails, or "" when the pool is created
CreatePoolRevert(tokenA, tokenB) ==
    IF tokenA = tokenB THEN "Identical tokens"
    ELSE IF tokenA = ZeroAddress \/ tokenB = ZeroAddress THEN "Zero address"
    ELSE IF pools[<<tokenA, tokenB>>].tokenA # ZeroAddress THEN "Pool exists"
    ELSE ""

\* addLiquidity: the liquidity minted for the amounts
Liquidity(pool, amountA, amountB) ==
    IF pool.totalLiquidity = 0
        THEN sqrt(amountA * amountB)
        ELSE min((amountA * pool.totalLiquidity) \div pool.reserveA,
                 (amountB * pool.totalLiquidity) \div pool.reserveB)

\* addLiquidity: the require (or panic) that fails, or ""
AddLiquidityRevert(poolId, amountA, amountB, transfers) ==
    LET pool == pools[poolId]
    IN  IF pool.tokenA = ZeroAddress THEN "Pool doesn't exist"
        ELSE IF transfers = "reverts" THEN "ERC20 transfer failed"
        ELSE IF pool.totalLiquidity # 0 /\ (pool.reserveA = 0 \/ pool.reserveB = 0)
            THEN "Panic: division by zero"
        ELSE IF Liquidity(pool, amountA, amountB) = 0 THEN "Insufficient liquidity"
        ELSE ""

\* a swap that charges no fee
AmountOutNoFee(amountIn, reserveIn, reserveOut, fee) ==
    (amountIn * reserveOut) \div (reserveIn + amountIn)

\* swap: amountOut for amountIn of the input side
AmountOut(amountIn, reserveIn, reserveOut, fee) ==
    LET amountInWithFee == amountIn * (FEE_DENOMINATOR - fee)
    IN  (amountInWithFee * reserveOut)
            \div (reserveIn * FEE_DENOMINATOR + amountInWithFee)

\* swap: the require (or panic) that fails, or ""
SwapRevert(poolId, tokenIn, amountIn, minAmountOut, transfers) ==
    LET pool == pools[poolId]
        isTokenA == tokenIn = pool.tokenA
        reserveIn == IF isTokenA THEN pool.reserveA ELSE pool.reserveB
        reserveOut == IF isTokenA THEN pool.reserveB ELSE pool.reserveA
        amountOut == AmountOut(amountIn, reserveIn, reserveOut, swapFee)
    IN  IF pool.tokenA = ZeroAddress THEN "Pool doesn't exist"
        ELSE IF tokenIn # pool.tokenA /\ tokenIn # pool.tokenB THEN "Invalid token"
        ELSE IF reserveIn * FEE_DENOMINATOR + amountIn * (FEE_DENOMINATOR - swapFee) = 0
            THEN "Panic: division by zero"
        ELSE IF ~(amountOut >= minAmountOut) THEN "Slippage exceeded"
        ELSE IF ~(amountOut < reserveOut) THEN "Insufficient liquidity"
        ELSE IF transfers = "reverts" THEN "ERC20 transfer failed"
        ELSE ""

\* a removeLiquidity that does not look at the caller's share
RemoveLiquidityRevertAnyCaller(sender, poolId, liquidity, transfers) ==
    LET pool == pools[poolId]
    IN  IF pool.totalLiquidity = 0 THEN "Panic: division by zero"
        ELSE IF ~(/\ (liquidity * pool.reserveA) \div pool.totalLiquidity > 0
                  /\ (liquidity * pool.reserveB) \div pool.totalLiquidity > 0)
            THEN "Insufficient amounts"
        ELSE IF transfers = "reverts" THEN "ERC20 transfer failed"
        ELSE ""

\* removeLiquidity: the require (or panic) that fails, or ""
RemoveLiquidityRevert(sender, poolId, liquidity, transfers) ==
    LET pool == pools[poolId]
    IN  IF ~(liquidityProviders[poolId][sender] >= liquidity)
            THEN "Insufficient liquidity"
        ELSE IF pool.totalLiquidity = 0 THEN "Panic: division by zero"
        ELSE IF ~(/\ (liquidity * pool.reserveA) \div pool.totalLiquidity > 0
                  /\ (liquidity * pool.reserveB) \div pool.totalLiquidity > 0)
            THEN "Insufficient amounts"
        ELSE IF transfers = "reverts" THEN "ERC20 transfer failed"
        ELSE ""

\* a setSwapFee without the cap
SetSwapFeeRevertNoCap(sender, newFee) ==
    IF sender # Owner THEN "OwnableUnauthorizedAccount" ELSE ""

\* setSwapFee: onlyOwner, then the cap
SetSwapFeeRevert(sender, newFee) ==
    IF sender # Owner THEN "OwnableUnauthorizedAccount"
    ELSE IF ~(newFee <= MaxSwapFee) THEN "Fee too high"
    ELSE ""

-----------------------------------------------------------------------------
(* POST /api/agent: the policy checks, the Q402 payment gate and the       *)
(* actions. The handler is asynchronous: each action below is one stretch  *)
(* of it, up to and including the external call it awaits.                 *)

\* process.env: GROQ_API_KEY, CHAINGPT_API_KEY, PRIVATE_KEY set or not
Envs ==
    [GROQ_API_KEY : BOOLEAN, CHAINGPT_API_KEY : BOOLEAN, PRIVATE_KEY : BOOLEAN]

FullEnv == [GROQ_API_KEY |-> TRUE, CHAINGPT_API_KEY |-> TRUE, PRIVATE_KEY |-> TRUE]

\* a gate that charges for audits only
PAID_ACTIONS_AUDIT_ONLY == {"audit"}

\* const PAID_ACTIONS = ["audit", "deploy"]
PAID_ACTIONS == {"audit", "deploy"}

\* the actions that ask the AI providers
AI_ACTIONS == {"research", "generate", "audit", "optimize", "fix", "explain_error"}

\* body.action; "unknown" stands for every other value
AgentActions == AI_ACTIONS \cup {"compile", "deploy", "transfer", "unknown"}

\* body.userAddress is missing, on the DENY_LIST, or another wallet; the
\* x-payment header is missing, is not base64 JSON, or decodes to a payload;
\* body.errors, which only the fix action reads, is an array or is missing
Requests ==
    {r \in [action : AgentActions,
            userAddress : {"none", "denylisted", "wallet"},
            payment : {"none", "malformed", "payload"},
            errors : {"array", "missing"}] :
        r.errors = "missing" => r.action = "fix"}

NoRequest ==
    [action |-> "none", userAddress |-> "none", payment |-> "none", errors |-> "array"]

\* return NextResponse.json(...): the request is answered
Done(resp) == [pc |-> "done", response |-> resp]

\* the handler goes on to the await named p
Goto(p) == [pc |-> p, response |-> NoResponse]

\* a dispatch that asks ChainGPT first whenever its key is configured
DispatchChainGPTFirst(r, e) ==
    IF r.action = "fix" /\ r.errors = "missing"
        THEN Done([status |-> 500, success |-> FALSE,
                   error |-> "Cannot read properties of undefined (reading 'map')"])
    ELSE IF r.action \in AI_ACTIONS
        THEN Goto(IF e.CHAINGPT_API_KEY THEN "callChainGPTAPI" ELSE "callGroqAPI")
    ELSE IF r.action = "compile" THEN Goto("compile")
    ELSE IF r.action = "deploy" THEN Goto("gasPrice")
    ELSE IF r.action = "transfer"
        THEN IF e.PRIVATE_KEY
                 THEN Goto("sendTransaction")
                 ELSE Done([status |-> 500, error |-> "Server Error: Missing PRIVATE_KEY"])
    ELSE Done([status |-> 400, error |-> "Invalid action"])

\* the if-chain over `action` that follows the payment gate, up to the first
\* await of the action; errors.map of the fix action throws into the outer
\* catch when body.errors is missing
Dispatch(r, e) ==
    IF r.action = "fix" /\ r.errors = "missing"
        THEN Done([status |-> 500, success |-> FALSE,
                   error |-> "Cannot read properties of undefined (reading 'map')"])
    ELSE IF r.action \in AI_ACTIONS
        THEN Goto(IF e.GROQ_API_KEY THEN "callGroqAPI" ELSE "callChainGPTAPI")
    ELSE IF r.action = "compile" THEN Goto("compile")
    ELSE IF r.action = "deploy" THEN Goto("gasPrice")
    ELSE IF r.action = "transfer"
        THEN IF e.PRIVATE_KEY
                 THEN Goto("sendTransaction")
                 ELSE Done([status |-> 500, error |-> "Server Error: Missing PRIVATE_KEY"])
    ELSE Done([status |-> 400, error |-> "Invalid action"])

\* the 402 body (the witness is left out; network is not "mainnet")
PaymentRequired ==
    [status |-> 402, error |-> "Payment Required",
     paymentDetails |-> [scheme |-> "evm/eip7702-delegated-payment",
                         networkId |-> "somnia-testnet",
                         amount |-> "100000000000000"]]

InvalidPayment == [status |-> 403, error |-> "Invalid Payment Signature"]

\* the basic checks, the deny list and the head of the payment gate: a paid
\* action without the header is answered 402, one whose header does not
\* decode is answered 403, any other header goes to verifyPayment
Gate(r, e) ==
    IF ~e.GROQ_API_KEY /\ ~e.CHAINGPT_API_KEY
        THEN Done([status |-> 500, error |-> "Server Error: Missing AI API Key"])
    ELSE IF r.userAddress = "none"
        THEN Done([status |-> 403, error |-> "Policy Violation: No authenticated wallet."])
    ELSE IF r.userAddress = "denylisted"
        THEN Done([status |-> 403,
                   error |-> "Policy Violation: Wallet Address is Denylisted."])
    ELSE IF r.action \in PAID_ACTIONS
        THEN IF r.payment = "none" THEN Done(PaymentRequired)
             ELSE IF r.payment = "malformed" THEN Done(InvalidPayment)
             ELSE Goto("verifyPayment")
    ELSE Dispatch(r, e)

\* one more external call on the trace
Called(call, outcome) == Append(trace, [call |-> call, outcome |-> outcome])

\* what the action answers once the providers have been asked
AfterAI(action, hasResult) ==
    IF ~hasResult
        THEN IF action = "explain_error"
                 THEN Done([status |-> 200, success |-> TRUE,
                            explanation |-> "Unable to generate explanation. Please check the error message above."])
                 ELSE Done([status |-> 503, error |-> "AI service unavailable"])
    ELSE IF action \in {"generate", "fix"} THEN Goto("compileSolidityServerless")
    ELSE Done([status |-> 200, success |-> TRUE])

\* a gate that looks at the risk level instead of the critical count
BlocksOnHighRisk(securityResult) ==
    /\ securityResult.status = 200
    /\ securityResult.analysis.riskLevel = "High Risk"

\* whether the answer of /api/security makes the deploy action stop:
\* securityResult.success && securityResult.analysis && summary.critical > 0
BlocksDeployment(securityResult) ==
    /\ securityResult.status = 200
    /\ securityResult.analysis.summary.critical > 0

DeploymentBlocked(securityResult) ==
    [status |-> 403,
     error |-> "Deployment blocked: Critical security vulnerabilities detected",
     securityAnalysis |-> securityResult.analysis,
     message |-> "Please fix critical issues before deploying"]

-----------------------------------------------------------------------------
(* GameAssetNFT. The URI of a token is not kept: every call passes the same *)
(* one. *)

MAX_SUPPLY == 10000

\* uint256 public mintPrice = 0.01 ether, in units of 0.01 ether
mintPrice == 1

\* the rarities the callers pass: the ends of 1..4 and their neighbours
Rarities == {0, 1, 4, 5}

\* mint: the require that fails, or ""; `accepts` tells whether _safeMint
\* finds a receiver that takes the token
MintRevert(value, rarity, accepts) ==
    IF ~(tokenIdCounter < MAX_SUPPLY) THEN "Max supply reached"
    ELSE IF ~(value >= mintPrice) THEN "Insufficient payment"
    ELSE IF ~(rarity >= 1 /\ rarity <= 4) THEN "Invalid rarity"
    ELSE IF ~accepts THEN "ERC721InvalidReceiver"
    ELSE ""

\* batchMint: onlyOwner, the two requires, then the loop
BatchMintRevert(sender, recipients, uris, rarities, accepts) ==
    IF sender # Owner THEN "OwnableUnauthorizedAccount"
    ELSE IF ~(Len(recipients) = Len(uris) /\ Len(uris) = Len(rarities))
        THEN "Array length mismatch"
    ELSE IF ~(tokenIdCounter + Len(recipients) <= MAX_SUPPLY) THEN "Exceeds max supply"
    ELSE IF Len(recipients) > 0 /\ ~accepts THEN "ERC721InvalidReceiver"
    ELSE ""

\* GameAssetNFT after its constructor
NFTInit ==
    /\ tokenIdCounter = 0
    /\ tokenOwner = <<>>
    /\ tokenRarity = <<>>
    /\ nftCall = [fn |-> "none", outcome |-> "none"]

-----------------------------------------------------------------------------
(* /api/analytics: the deployment records and the per-user statistics kept *)
(* in data/analytics.json. Of a record the model keeps the deployer, of a   *)
(* user the address and totalDeployments; ids, timestamps, gas totals and   *)
(* template counts are not kept.                                            *)

\* String.prototype.toLowerCase on the letters of a hex address
LowerCase == [A |-> "a", B |-> "b", C |-> "c", D |-> "d", E |-> "e", F |-> "f"]

ToLowerCase(text) ==
    [i \in 1..Len(text) |->
        IF text[i] \in DOMAIN LowerCase THEN LowerCase[text[i]] ELSE text[i]]

\* a key that keeps the case of the deployer
UserKeyAsGiven(deployer) == deployer

\* const userKey = deployment.deployer.toLowerCase()
UserKey(deployer) == ToLowerCase(deployer)

\* the deployer of a body: two spellings of one address, another address,
\* and the empty string of a body without deployer
Deployers == {<<"0", "x", "A">>, <<"0", "x", "a">>, <<"0", "x", "b">>, <<>>}

\* the bodies of POST /api/analytics: address and network are present;
\* gasUsed is missing, a decimal string, or a string BigInt rejects
Bodies == [deployer : Deployers, gasUsed : {"none", "decimal", "garbage"}]

NoBody == [deployer |-> <<>>, gasUsed |-> "idle"]

Clients == {"client1", "client2"}

NoFile == [exists |-> FALSE, deployments |-> <<>>, users |-> <<>>]

\* { deployments: [], users: {} }
EmptyAnalytics == [exists |-> TRUE, deployments |-> <<>>, users |-> <<>>]

\* ensureDataDirectory and readAnalytics: a missing file is created empty
readAnalytics == IF analyticsFile.exists THEN analyticsFile ELSE EmptyAnalytics

\* the analytics object after the handler has pushed the record and counted
\* it for its user; users is kept as a sequence of entries in insertion order
Recorded(analytics, deployment) ==
    LET userKey == UserKey(deployment.deployer)
        known == \E n \in 1..Len(analytics.users) : analytics.users[n].key = userKey
        users == IF known THEN analytics.users
                 ELSE Append(analytics.users,
                             [key |-> userKey, address |-> deployment.deployer,
                              totalDeployments |-> 0])
    IN  [exists |-> TRUE,
         deployments |-> Append(analytics.deployments,
                                [deployer |-> deployment.deployer]),
         users |-> [n \in 1..Len(users) |->
                       IF users[n].key = userKey
                           THEN [users[n] EXCEPT !.totalDeployments = @ + 1]
                           ELSE users[n]]]

\* the response of POST to a body, when the disk takes the write or not
PostResponse(deployment, disk) ==
    IF deployment.deployer = <<>>
        THEN [status |-> 400,
              error |-> "Missing required fields: address, deployer, network"]
    ELSE IF deployment.gasUsed = "garbage"
        THEN [status |-> 500, error |-> "Cannot convert garbage to a BigInt"]
    ELSE IF disk = "fails" THEN [status |-> 500, error |-> "EACCES"]
    ELSE [status |-> 200, success |-> TRUE,
          message |-> "Deployment recorded successfully"]

AnalyticsInit ==
    /\ analyticsFile = NoFile
    /\ inflight = [client \in Clients |-> NoBody]
    /\ acknowledged = 0
    /\ analyticsResponse = [status |-> 0]

-----------------------------------------------------------------------------
(* The studio editor: the files of the explorer. A name is a sequence of   *)
(* characters; the code of a file is kept as the name of what produced it. *)

\* TEMPLATES: the name of each template
TEMPLATES ==
    [erc20 |-> <<"E", "R", "C", "2", "0", " ", "T", "o", "k", "e", "n">>,
     nft |-> <<"N", "F", "T", " ", "C", "o", "l", "l", "e", "c", "t", "i", "o", "n">>,
     dao |-> <<"S", "i", "m", "p", "l", "e", " ", "D", "A", "O">>,
     staking |-> <<"S", "t", "a", "k", "i", "n", "g">>]

DotSol == <<".", "s", "o", "l">>

\* `${template.name.replace(/\s+/g, '')}.sol`
TemplateFileName(templateKey) ==
    SelectSeq(TEMPLATES[templateKey], LAMBDA ch : ch \notin Whitespace) \o DotSol

\* String.prototype.trim
RECURSIVE Trim(_)
Trim(text) ==
    IF text = <<>> THEN text
    ELSE IF Head(text) \in Whitespace THEN Trim(Tail(text))
    ELSE IF text[Len(text)] \in Whitespace THEN Trim(SubSeq(text, 1, Len(text) - 1))
    ELSE text

\* String.prototype.endsWith
EndsWith(text, suffix) ==
    /\ Len(text) >= Len(suffix)
    /\ SubSeq(text, Len(text) - Len(suffix) + 1, Len(text)) = suffix

\* createNewFile: the name the new file gets
NewFileTarget(newFileName) ==
    IF EndsWith(Trim(newFileName), DotSol) THEN Trim(newFileName)
    ELSE Trim(newFileName) \o DotSol

MyToken == <<"M", "y", "T", "o", "k", "e", "n", ".", "s", "o", "l">>

\* what the user types into the new-file dialog
NewFileNames ==
    {<<>>, <<" ">>, <<"A">>, <<" ", "A", ".", "s", "o", "l", " ">>,
     <<"S", "t", "a", "k", "i", "n", "g">>, MyToken}

\* the names handed to switchFile and deleteFile
FileNames ==
    {MyToken, <<"A", ".", "s", "o", "l">>, TemplateFileName("erc20"),
     TemplateFileName("staking")}

FileNamed(files, fileName) ==
    \E n \in 1..Len(files) : files[n].name = fileName

\* userFiles.find(f => f.name === fileName).code
CodeOf(files, fileName) ==
    files[CHOOSE n \in 1..Len(files) : files[n].name = fileName].code

\* a deleteFile that does not refuse the last file
RefusesDeleteNever(files) == FALSE

\* deleteFile: if (userFiles.length <= 1) return
RefusesDelete(files) == Len(files) <= 1

EditorInit ==
    /\ userFiles = <<[name |-> MyToken, code |-> <<"DEFAULT_CONTRACT">>]>>
    /\ currentFileName = MyToken
    /\ editorCode = <<"DEFAULT_CONTRACT">>

\* the severities a finding carries; "note" stands for any value the switch
\* of the score does not know
Severities == {"critical", "high", "medium", "low", "info", "note"}

\* riskScore and riskLevel as the route computes them for a list of issues
Scored(issues) ==
    [riskScore |-> RiskScore(issues), riskLevel |-> RiskLevel(RiskScore(issues))]

RiskInit ==
    /\ findings = <<>>
    /\ riskReport = Scored(<<>>)

-----------------------------------------------------------------------------
(* The IDE: the busy flags and the compile result of the store.            *)

NoIdeRequest == [action |-> "none", payment |-> FALSE]

\* what an awaited fetch of /api/agent and its res.json() come to: the
\* status 402, a body with success, a body without it, a body without it
\* that lists errors, or an exception
FetchOutcomes == {"402", "success", "failure", "errors", "throws"}

IDEInit ==
    /\ isConnected = FALSE
    /\ isCompiling = FALSE
    /\ isDeploying = FALSE
    /\ compileResult = "null"
    /\ aiPanelOpen = FALSE
    /\ compilePc = "idle"
    /\ deployPc = "idle"
    /\ ideRequest = NoIdeRequest

\* the state the added parts start in
ClientInit == NFTInit /\ AnalyticsInit /\ EditorInit /\ RiskInit /\ IDEInit

-----------------------------------------------------------------------------
(* The route: a client posts the same body again and again while the       *)
(* clock advances.                                                          *)

\* the state every part other than the source starts in
Init ==
    /\ code \in Inputs
    /\ now = 0
    /\ previous = NoResponse
    /\ response = NoResponse
    /\ libPrevious = NoResult
    /\ libResult = NoResult
    /\ lastIndex = FreshLastIndex
    /\ otherResult = NoResult
    /\ env = FullEnv
    /\ request = NoRequest
    /\ pc = "idle"
    /\ trace = <<>>
    /\ agentResponse = NoResponse
    /\ pools = [poolId \in PoolIds |-> NoPool]
    /\ liquidityProviders = [poolId \in PoolIds |-> [account \in Accounts |-> 0]]
    /\ swapFee = InitialSwapFee
    /\ dexCall = NoCall
    /\ ClientInit

POST ==
    /\ response' = Handler(code, now)
    /\ previous' = response
    /\ UNCHANGED <<code, now, libPrevious, libResult, lastIndex, otherResult>>
    /\ UNCHANGED <<agentVars, dexVars, clientVars>>

Tick ==
    /\ now < MaxClock
    /\ now' = now + 1
    /\ UNCHANGED <<code, previous, response, libPrevious, libResult, lastIndex, otherResult>>
    /\ UNCHANGED <<agentVars, dexVars, clientVars>>

Next == POST \/ Tick

Spec == Init /\ [][Next]_vars

-----------------------------------------------------------------------------
(* The library: a caller analyses the same source again and again, while  *)
(* another caller of the same module analyses sources of its own.          *)

AnalyzeContract ==
    /\ libResult' = LibCall(code, lastIndex)
    /\ libPrevious' = libResult
    /\ lastIndex' = LastIndexAfter(code, lastIndex)
    /\ UNCHANGED <<code, now, previous, response, otherResult>>
    /\ UNCHANGED <<agentVars, dexVars, clientVars>>

\* the sources the other caller analyses
OtherSources == {LicenseHeader, Fragment[2]}

AnalyzeOther ==
    \E text \in OtherSources :
        /\ otherResult' = [outcome |-> "returned", source |-> text,
                           results |-> analyzeContract(text, lastIndex)]
        /\ lastIndex' = LastIndexAfter(StringInput(text), lastIndex)
        /\ UNCHANGED <<code, now, previous, response, libPrevious, libResult>>
        /\ UNCHANGED <<agentVars, dexVars, clientVars>>

NextLib == AnalyzeContract \/ AnalyzeOther

SpecLib == Init /\ [][NextLib]_vars

\* both analyzers on the same source
NextBoth == POST \/ AnalyzeContract

SpecBoth == Init /\ [][NextBoth]_vars

-----------------------------------------------------------------------------
(* The agent API: a server with some keys configured answers one request  *)
(* after another; the body's code is one of a few contract sources.        *)

\* the contract sources sent to the agent: empty, licensed only, with an
\* unguarded value call (critical), with selfdestruct (high), with both; and
\* an array
AgentSources ==
    {StringInput(JoinLines(lines)) :
        lines \in {<<>>, <<LicenseHeader>>, <<Fragment[3]>>, <<Fragment[20]>>,
                   <<Fragment[3], Fragment[20]>>}}
    \cup {[kind |-> "array", text |-> <<>>, num |-> 0]}

InitAgent ==
    /\ code \in AgentSources
    /\ now = 0
    /\ previous = NoResponse
    /\ response = NoResponse
    /\ libPrevious = NoResult
    /\ libResult = NoResult
    /\ lastIndex = FreshLastIndex
    /\ otherResult = NoResult
    /\ env \in Envs
    /\ request = NoRequest
    /\ pc = "idle"
    /\ trace = <<>>
    /\ agentResponse = NoResponse
    /\ pools = [poolId \in PoolIds |-> NoPool]
    /\ liquidityProviders = [poolId \in PoolIds |-> [account \in Accounts |-> 0]]
    /\ swapFee = InitialSwapFee
    /\ dexCall = NoCall
    /\ ClientInit

\* the handler takes the step `next`
Step(next) ==
    /\ pc' = next.pc
    /\ agentResponse' = next.response
    /\ UNCHANGED <<analyzerVars, dexVars, clientVars, env, request>>

\* req.json(), the basic checks, the deny list, the head of the payment gate
Receive ==
    /\ pc \in {"idle", "done"}
    /\ \E r \in Requests :
          /\ request' = r
          /\ trace' = <<>>
          /\ pc' = Gate(r, env).pc
          /\ agentResponse' = Gate(r, env).response
    /\ UNCHANGED <<analyzerVars, dexVars, clientVars, env>>

\* const isValid = await verifyPayment(payload); if (!isValid) throw
VerifyPayment ==
    /\ pc = "verifyPayment"
    /\ \E outcome \in {"valid", "invalid", "throws"} :
          /\ trace' = Called("verifyPayment", outcome)
          /\ Step(IF outcome = "valid" THEN Goto("settlePayment")
                                       ELSE Done(InvalidPayment))

\* await settlePayment(payload), then on to the action
SettlePayment ==
    /\ pc = "settlePayment"
    /\ \E outcome \in {"settled", "throws"} :
          /\ trace' = Called("settlePayment", outcome)
          /\ Step(IF outcome = "settled" THEN Dispatch(request, env)
                                         ELSE Done(InvalidPayment))

\* if (GROQ_API_KEY) try { result = await callGroqAPI(...) } catch {}
CallGroq ==
    /\ pc = "callGroqAPI"
    /\ \E outcome \in {"result", "empty", "throws"} :
          /\ trace' = Called("callGroqAPI", outcome)
          /\ Step(IF outcome = "result" THEN AfterAI(request.action, TRUE)
                  ELSE IF env.CHAINGPT_API_KEY THEN Goto("callChainGPTAPI")
                  ELSE AfterAI(request.action, FALSE))

\* if (!result && CHAINGPT_API_KEY) try { result = await callChainGPTAPI(...) }
CallChainGPT ==
    /\ pc = "callChainGPTAPI"
    /\ \E outcome \in {"result", "empty", "throws"} :
          /\ trace' = Called("callChainGPTAPI", outcome)
          /\ Step(AfterAI(request.action, outcome = "result"))

\* generate and fix: await compileSolidityServerless(code); a failure only
\* adds warnings
ValidateGenerated ==
    /\ pc = "compileSolidityServerless"
    /\ \E outcome \in {"compiled", "throws"} :
          /\ trace' = Called("compileSolidityServerless", outcome)
          /\ Step(Done([status |-> 200, success |-> TRUE,
                        warnings |-> (outcome = "throws")]))

\* action compile: await compileSolidity(code)
Compile ==
    /\ pc = "compile"
    /\ \E outcome \in {"compiled", "throws"} :
          /\ trace' = Called("compileSolidity", outcome)
          /\ Step(Done([status |-> 200, success |-> (outcome = "compiled")]))

\* action transfer: sendTransaction and waitForTransactionReceipt
SendTransaction ==
    /\ pc = "sendTransaction"
    /\ \E outcome \in {"receipt", "throws"} :
          /\ trace' = Called("sendTransaction", outcome)
          /\ Step(IF outcome = "receipt"
                      THEN Done([status |-> 200, success |-> TRUE])
                      ELSE Done([status |-> 500, error |-> "Transfer Failed"]))

\* action deploy: the spend cap on the fetched gas price (a failed fetch is
\* let through), then the PRIVATE_KEY check
GasPrice ==
    /\ pc = "gasPrice"
    /\ \E outcome \in {"withinCap", "overCap", "failed"} :
          /\ trace' = Called("eth_gasPrice", outcome)
          /\ Step(IF outcome = "overCap"
                      THEN Done([status |-> 403,
                                 error |-> "Policy Violation: Spend Cap Exceeded."])
                  ELSE IF ~env.PRIVATE_KEY
                      THEN Done([status |-> 500,
                                 error |-> "Server Error: Missing PRIVATE_KEY"])
                  ELSE Goto("securityCheck"))

\* fetch(/api/security, {code}) and the gate on its answer; a fetch that
\* fails throws into the catch of the deploy action
SecurityCheck ==
    /\ pc = "securityCheck"
    /\ \E answered \in BOOLEAN :
          LET securityResult == Handler(code, now)
          IN  /\ trace' = Called("/api/security",
                                 IF ~answered THEN "throws"
                                 ELSE IF securityResult.status = 200 THEN "analysis"
                                 ELSE "error")
              /\ Step(IF ~answered
                          THEN Done([status |-> 500, error |-> "fetch failed"])
                      ELSE IF BlocksDeployment(securityResult)
                          THEN Done(DeploymentBlocked(securityResult))
                      ELSE Goto("deployCompile"))

\* const { abi, bytecode } = await compileSolidity(code)
DeployCompile ==
    /\ pc = "deployCompile"
    /\ \E outcome \in {"compiled", "throws"} :
          /\ trace' = Called("compileSolidity", outcome)
          /\ Step(IF outcome = "compiled"
                      THEN Goto("deployContract")
                      ELSE Done([status |-> 500, error |-> "Compilation failed"]))

\* walletClient.deployContract, waitForTransactionReceipt, and the analytics
\* record, whose failure is ignored
DeployContract ==
    /\ pc = "deployContract"
    /\ \E outcome \in {"receipt", "throws"} :
          /\ trace' = Called("deployContract", outcome)
          /\ Step(IF outcome = "receipt"
                      THEN Done([status |-> 200, success |-> TRUE])
                      ELSE Done([status |-> 500, error |-> "Deployment Failed"]))

NextAgent ==
    \/ Receive
    \/ VerifyPayment
    \/ SettlePayment
    \/ CallGroq
    \/ CallChainGPT
    \/ ValidateGenerated
    \/ Compile
    \/ SendTransaction
    \/ GasPrice
    \/ SecurityCheck
    \/ DeployCompile
    \/ DeployContract

SpecAgent == InitAgent /\ [][NextAgent]_vars

-----------------------------------------------------------------------------
(* HighSpeedDEX: the accounts call the contract's functions in any order.  *)
(* dexCall is what the latest transaction left for its sender: the call    *)
(* with its arguments when it went through, the revert reason when it did  *)
(* not. The token contracts hold MaxReserve of each token in all, so the   *)
(* reserves of one token never add up to more.                             *)

InitDEX ==
    /\ code = StringInput(<<>>)
    /\ now = 0
    /\ previous = NoResponse
    /\ response = NoResponse
    /\ libPrevious = NoResult
    /\ libResult = NoResult
    /\ lastIndex = FreshLastIndex
    /\ otherResult = NoResult
    /\ env = FullEnv
    /\ request = NoRequest
    /\ pc = "idle"
    /\ trace = <<>>
    /\ agentResponse = NoResponse
    /\ pools = [poolId \in PoolIds |-> NoPool]
    /\ liquidityProviders = [poolId \in PoolIds |-> [account \in Accounts |-> 0]]
    /\ swapFee = InitialSwapFee
    /\ dexCall = NoCall
    /\ ClientInit

\* the record of a call and of how it ended
Ended(fn, sender, args, reason) ==
    IF reason = ""
        THEN [fn |-> fn, sender |-> sender, args |-> args, outcome |-> "ok"]
        ELSE [fn |-> fn, sender |-> ZeroAddress, args |-> <<>>, outcome |-> reason]

\* the amount of `token` the pools hold
Held(token) ==
    LET Of(poolId) ==
            (IF pools[poolId].tokenA = token THEN pools[poolId].reserveA ELSE 0)
            + (IF pools[poolId].tokenB = token THEN pools[poolId].reserveB ELSE 0)
        ab == <<"tokenA", "tokenB">>
        ba == <<"tokenB", "tokenA">>
    IN  Of(ab) + Of(ba)

createPool ==
    \E sender \in Accounts, tokenA \in Tokens \cup {ZeroAddress},
       tokenB \in Tokens \cup {ZeroAddress} :
        LET reason == CreatePoolRevert(tokenA, tokenB)
        IN  /\ dexCall' = Ended("createPool", sender, <<tokenA, tokenB>>, reason)
            /\ pools' = IF reason # "" THEN pools
                        ELSE [pools EXCEPT ![<<tokenA, tokenB>>] =
                                 [tokenA |-> tokenA, tokenB |-> tokenB,
                                  reserveA |-> 0, reserveB |-> 0,
                                  totalLiquidity |-> 0]]
            /\ UNCHANGED <<liquidityProviders, swapFee, analyzerVars, agentVars, clientVars>>

\* an addLiquidity that does not credit the provider
addLiquidityUncredited ==
    \E sender \in Accounts, poolId \in PoolIds, amountA \in 0..MaxAmount,
       amountB \in 0..MaxAmount, transfers \in {"ok", "reverts"} :
        LET pool == pools[poolId]
            reason == AddLiquidityRevert(poolId, amountA, amountB, transfers)
            liquidity == Liquidity(pool, amountA, amountB)
        IN  /\ Held(pool.tokenA) + amountA <= MaxReserve
            /\ Held(pool.tokenB) + amountB <= MaxReserve
            /\ dexCall' = Ended("addLiquidity", sender, <<poolId, amountA, amountB>>, reason)
            /\ pools' = IF reason # "" THEN pools
                        ELSE [pools EXCEPT ![poolId] =
                                 [pool EXCEPT !.reserveA = @ + amountA,
                                              !.reserveB = @ + amountB,
                                              !.totalLiquidity = @ + liquidity]]
            /\ liquidityProviders' = liquidityProviders
            /\ UNCHANGED <<swapFee, analyzerVars, agentVars, clientVars>>

addLiquidity ==
    \E sender \in Accounts, poolId \in PoolIds, amountA \in 0..MaxAmount,
       amountB \in 0..MaxAmount, transfers \in {"ok", "reverts"} :
        LET pool == pools[poolId]
            reason == AddLiquidityRevert(poolId, amountA, amountB, transfers)
            liquidity == Liquidity(pool, amountA, amountB)
        IN  /\ Held(pool.tokenA) + amountA <= MaxReserve
            /\ Held(pool.tokenB) + amountB <= MaxReserve
            /\ dexCall' = Ended("addLiquidity", sender, <<poolId, amountA, amountB>>, reason)
            /\ pools' = IF reason # "" THEN pools
                        ELSE [pools EXCEPT ![poolId] =
                                 [pool EXCEPT !.reserveA = @ + amountA,
                                              !.reserveB = @ + amountB,
                                              !.totalLiquidity = @ + liquidity]]
            /\ liquidityProviders' =
                   IF reason # "" THEN liquidityProviders
                   ELSE [liquidityProviders EXCEPT ![poolId][sender] = @ + liquidity]
            /\ UNCHANGED <<swapFee, analyzerVars, agentVars, clientVars>>

swap ==
    \E sender \in Accounts, poolId \in PoolIds, tokenIn \in Tokens,
       amountIn \in 0..MaxAmount, minAmountOut \in 0..MaxAmount,
       transfers \in {"ok", "reverts"} :
        LET pool == pools[poolId]
            isTokenA == tokenIn = pool.tokenA
            reason == SwapRevert(poolId, tokenIn, amountIn, minAmountOut, transfers)
            amountOut == AmountOut(amountIn,
                                   IF isTokenA THEN pool.reserveA ELSE pool.reserveB,
                                   IF isTokenA THEN pool.reserveB ELSE pool.reserveA,
                                   swapFee)
        IN  /\ Held(tokenIn) + amountIn <= MaxReserve
            /\ dexCall' = Ended("swap", sender,
                                <<poolId, tokenIn, amountIn, minAmountOut>>, reason)
            /\ pools' = IF reason # "" THEN pools
                        ELSE IF isTokenA
                            THEN [pools EXCEPT ![poolId] =
                                     [pool EXCEPT !.reserveA = @ + amountIn,
                                                  !.reserveB = @ - amountOut]]
                        ELSE [pools EXCEPT ![poolId] =
                                 [pool EXCEPT !.reserveB = @ + amountIn,
                                              !.reserveA = @ - amountOut]]
            /\ UNCHANGED <<liquidityProviders, swapFee, analyzerVars, agentVars, clientVars>>

removeLiquidity ==
    \E sender \in Accounts, poolId \in PoolIds, liquidity \in 0..MaxAmount,
       transfers \in {"ok", "reverts"} :
        LET pool == pools[poolId]
            reason == RemoveLiquidityRevert(sender, poolId, liquidity, transfers)
        IN  /\ dexCall' = Ended("removeLiquidity", sender, <<poolId, liquidity>>, reason)
            /\ pools' = IF reason # "" THEN pools
                        ELSE [pools EXCEPT ![poolId] =
                                 [pool EXCEPT
                                    !.totalLiquidity = @ - liquidity,
                                    !.reserveA = @ - (liquidity * pool.reserveA)
                                                        \div pool.totalLiquidity,
                                    !.reserveB = @ - (liquidity * pool.reserveB)
                                                        \div pool.totalLiquidity]]
            /\ liquidityProviders' =
                   IF reason # "" THEN liquidityProviders
                   ELSE [liquidityProviders EXCEPT ![poolId][sender] = @ - liquidity]
            /\ UNCHANGED <<swapFee, analyzerVars, agentVars, clientVars>>

\* the fees the callers try: the cap, and one above the cap
NewFees == {MaxSwapFee, MaxSwapFee + 1}

setSwapFee ==
    \E sender \in Accounts, newFee \in NewFees :
        LET reason == SetSwapFeeRevert(sender, newFee)
        IN  /\ dexCall' = Ended("setSwapFee", sender, <<newFee>>, reason)
            /\ swapFee' = IF reason # "" THEN swapFee ELSE newFee
            /\ UNCHANGED <<pools, liquidityProviders, analyzerVars, agentVars, clientVars>>

NextDEX == createPool \/ addLiquidity \/ swap \/ removeLiquidity \/ setSwapFee

SpecDEX == InitDEX /\ [][NextDEX]_vars

-----------------------------------------------------------------------------
(* GameAssetNFT: the accounts mint single tokens, the owner mints batches. *)

mint ==
    \E sender \in Accounts, to \in Accounts, value \in {0, mintPrice},
       rarity \in Rarities, accepts \in BOOLEAN :
        LET reason == MintRevert(value, rarity, accepts)
        IN  /\ tokenIdCounter < MaxMinted
            /\ nftCall' = [fn |-> "mint", outcome |-> IF reason = "" THEN "ok" ELSE reason]
            /\ tokenIdCounter' = IF reason # "" THEN tokenIdCounter ELSE tokenIdCounter + 1
            /\ tokenOwner' = IF reason # "" THEN tokenOwner ELSE Append(tokenOwner, to)
            /\ tokenRarity' = IF reason # "" THEN tokenRarity
                              ELSE Append(tokenRarity, rarity)
            /\ UNCHANGED <<analyzerVars, agentVars, dexVars, analyticsVars, editorVars, riskVars, ideVars>>

\* the arrays of a batchMint call: one recipient repeated, any rarities
BatchArrays ==
    UNION {[1..n -> Rarities] : n \in 0..MaxBatch}

batchMint ==
    \E sender \in Accounts, to \in Accounts, n \in 0..MaxBatch,
       rarities \in BatchArrays, accepts \in BOOLEAN :
      \E u \in {n, Len(rarities)} :
        LET recipients == [i \in 1..n |-> to]
            uris == [i \in 1..u |-> "ipfs://test"]
            reason == BatchMintRevert(sender, recipients, uris, rarities, accepts)
        IN  /\ tokenIdCounter + n <= MaxMinted
            /\ nftCall' = [fn |-> "batchMint",
                           outcome |-> IF reason = "" THEN "ok" ELSE reason]
            /\ tokenIdCounter' = IF reason # "" THEN tokenIdCounter
                                 ELSE tokenIdCounter + Len(recipients)
            /\ tokenOwner' = IF reason # "" THEN tokenOwner ELSE tokenOwner \o recipients
            /\ tokenRarity' = IF reason # "" THEN tokenRarity ELSE tokenRarity \o rarities
            /\ UNCHANGED <<analyzerVars, agentVars, dexVars, analyticsVars, editorVars, riskVars, ideVars>>

NextNFT == mint \/ batchMint

SpecNFT == InitDEX /\ [][NextNFT]_vars

-----------------------------------------------------------------------------
(* /api/analytics: two clients post deployments and clear the data. A POST *)
(* is in flight while its body is read (await req.json()); from there to   *)
(* the response the handler runs without another await, on synchronous     *)
(* file calls.                                                              *)

\* the number of records stored or on their way
Submitted ==
    Len(readAnalytics.deployments)
        + Cardinality({client \in Clients : inflight[client] # NoBody})

\* a POST arrives: const deployment = await req.json()
PostArrive ==
    \E client \in Clients, deployment \in Bodies :
        /\ inflight[client] = NoBody
        /\ Submitted < MaxRecords
        /\ inflight' = [inflight EXCEPT ![client] = deployment]
        /\ UNCHANGED <<analyticsFile, acknowledged, analyticsResponse>>
        /\ UNCHANGED <<analyzerVars, agentVars, dexVars, nftVars, editorVars, riskVars, ideVars>>

\* the body is read: validation, readAnalytics, the new record, the user
\* statistics, writeAnalytics and the response
PostRecord ==
    \E client \in Clients, disk \in {"ok", "fails"} :
        LET deployment == inflight[client]
            resp == PostResponse(deployment, disk)
        IN  /\ deployment # NoBody
            /\ inflight' = [inflight EXCEPT ![client] = NoBody]
            /\ analyticsResponse' = resp
            /\ analyticsFile' =
                   IF resp.status = 200 THEN Recorded(readAnalytics, deployment)
                   ELSE IF resp.status = 400 \/ disk = "fails" THEN analyticsFile
                   ELSE readAnalytics
            /\ acknowledged' = IF resp.status = 200 THEN acknowledged + 1
                               ELSE acknowledged
            /\ UNCHANGED <<analyzerVars, agentVars, dexVars, nftVars, editorVars, riskVars, ideVars>>

\* DELETE /api/analytics: writeAnalytics({ deployments: [], users: {} })
DELETE ==
    \E disk \in {"ok", "fails"} :
        /\ analyticsFile' = IF disk = "ok" THEN EmptyAnalytics ELSE analyticsFile
        /\ acknowledged' = IF disk = "ok" THEN 0 ELSE acknowledged
        /\ analyticsResponse' =
               IF disk = "ok"
                   THEN [status |-> 200, success |-> TRUE,
                         message |-> "Analytics data cleared"]
                   ELSE [status |-> 500, error |-> "EACCES"]
        /\ UNCHANGED inflight
        /\ UNCHANGED <<analyzerVars, agentVars, dexVars, nftVars, editorVars, riskVars, ideVars>>

NextAnalytics == PostArrive \/ PostRecord \/ DELETE

SpecAnalytics == InitDEX /\ [][NextAnalytics]_vars

-----------------------------------------------------------------------------
(* The studio editor: the user loads templates, creates, opens and deletes *)
(* files; the component renders between two of these.                      *)

loadTemplate ==
    \E templateKey \in DOMAIN TEMPLATES :
        LET fileName == TemplateFileName(templateKey)
            templateCode == <<"template", templateKey>>
        IN  /\ FileNamed(userFiles, fileName) \/ Len(userFiles) < MaxFiles
            /\ editorCode' = templateCode
            /\ currentFileName' = fileName
            /\ userFiles' = IF FileNamed(userFiles, fileName) THEN userFiles
                            ELSE Append(userFiles,
                                        [name |-> fileName, code |-> templateCode])
            /\ UNCHANGED <<analyzerVars, agentVars, dexVars, nftVars, analyticsVars, riskVars, ideVars>>

createNewFile ==
    \E newFileName \in NewFileNames :
        LET fileName == NewFileTarget(newFileName)
            newCode == <<"new", fileName>>
        IN  /\ Len(userFiles) < MaxFiles
            /\ IF Trim(newFileName) = <<>> \/ FileNamed(userFiles, fileName)
                   THEN UNCHANGED editorVars
                   ELSE /\ userFiles' = Append(userFiles,
                                               [name |-> fileName, code |-> newCode])
                        /\ currentFileName' = fileName
                        /\ editorCode' = newCode
            /\ UNCHANGED <<analyzerVars, agentVars, dexVars, nftVars, analyticsVars, riskVars, ideVars>>

switchFile ==
    \E fileName \in FileNames :
        LET saved == [n \in 1..Len(userFiles) |->
                        IF userFiles[n].name = currentFileName
                            THEN [userFiles[n] EXCEPT !.code = editorCode]
                            ELSE userFiles[n]]
        IN  /\ userFiles' = saved
            /\ IF FileNamed(userFiles, fileName)
                   THEN /\ currentFileName' = fileName
                        /\ editorCode' = CodeOf(userFiles, fileName)
                   ELSE UNCHANGED <<currentFileName, editorCode>>
            /\ UNCHANGED <<analyzerVars, agentVars, dexVars, nftVars, analyticsVars, riskVars, ideVars>>

deleteFile ==
    \E fileName \in FileNames :
        LET remaining == SelectSeq(userFiles, LAMBDA f : f.name # fileName)
        IN  /\ IF RefusesDelete(userFiles) THEN UNCHANGED editorVars
               ELSE /\ userFiles' = remaining
                    /\ IF currentFileName = fileName /\ Len(remaining) > 0
                           THEN /\ currentFileName' = remaining[1].name
                                /\ editorCode' = remaining[1].code
                           ELSE UNCHANGED <<currentFileName, editorCode>>
            /\ UNCHANGED <<analyzerVars, agentVars, dexVars, nftVars, analyticsVars, riskVars, ideVars>>

NextEditor == loadTemplate \/ createNewFile \/ switchFile \/ deleteFile

SpecEditor == InitDEX /\ [][NextEditor]_vars

-----------------------------------------------------------------------------
(* Risk scoring on its own: a list of findings grows by one finding of any *)
(* severity and is scored again.                                            *)

AddFinding ==
    \E severity \in Severities :
        /\ Len(findings) < MaxFindings
        /\ findings' = Append(findings, [severity |-> severity])
        /\ riskReport' = Scored(findings')
        /\ UNCHANGED <<analyzerVars, agentVars, dexVars, nftVars, analyticsVars,
                       editorVars, ideVars>>

SpecRisk == InitDEX /\ [][AddFinding]_vars

-----------------------------------------------------------------------------
(* The IDE: the user connects a wallet and presses Compile and Deploy. The *)
(* Compile button is disabled while isCompiling and the Deploy button      *)
(* while isDeploying, so one run of each handler is under way at a time,   *)
(* and the two runs interleave at their awaits.                             *)

\* connectWallet: setUser({ walletAddress })
connectWallet ==
    /\ ~isConnected
    /\ isConnected' = TRUE
    /\ UNCHANGED <<isCompiling, isDeploying, compileResult, aiPanelOpen, compilePc,
                   deployPc, ideRequest>>
    /\ UNCHANGED <<analyzerVars, agentVars, dexVars, nftVars, analyticsVars, editorVars, riskVars>>

\* the Disconnect button: disconnect()
disconnect ==
    /\ isConnected
    /\ isConnected' = FALSE
    /\ UNCHANGED <<isCompiling, isDeploying, compileResult, aiPanelOpen, compilePc,
                   deployPc, ideRequest>>
    /\ UNCHANGED <<analyzerVars, agentVars, dexVars, nftVars, analyticsVars, editorVars, riskVars>>

\* handleCompile up to its first await: the wallet check, setCompiling(true)
\* and the fetch of action compile
handleCompile ==
    /\ compilePc = "idle"
    /\ IF ~isConnected
           THEN UNCHANGED <<isCompiling, compilePc, ideRequest>>
           ELSE /\ isCompiling' = TRUE
                /\ compilePc' = "fetch"
                /\ ideRequest' = [action |-> "compile", payment |-> FALSE]
    /\ UNCHANGED <<isConnected, isDeploying, compileResult, aiPanelOpen, deployPc>>
    /\ UNCHANGED <<analyzerVars, agentVars, dexVars, nftVars, analyticsVars, editorVars, riskVars>>

\* the catch and finally blocks of handleCompile, and its normal end
CompileEnds(result) ==
    /\ compileResult' = result
    /\ isCompiling' = FALSE
    /\ compilePc' = "idle"
    /\ UNCHANGED ideRequest

\* the answer to the first or to the retried compile request
CompileResponse ==
    /\ compilePc \in {"fetch", "retry"}
    /\ \E outcome \in FetchOutcomes :
          IF outcome = "402" /\ compilePc = "fetch"
              THEN /\ compilePc' = "sign"
                   /\ UNCHANGED <<isCompiling, compileResult, ideRequest>>
          ELSE IF outcome = "errors"
              THEN /\ compileResult' = "failure"
                   /\ compilePc' = "explain"
                   /\ UNCHANGED <<isCompiling, ideRequest>>
          ELSE CompileEnds(IF outcome = "success" THEN "success" ELSE "failure")
    /\ UNCHANGED <<isConnected, isDeploying, aiPanelOpen, deployPc>>
    /\ UNCHANGED <<analyzerVars, agentVars, dexVars, nftVars, analyticsVars, editorVars, riskVars>>

\* await createPaymentHeader(...), then the compile request with X-PAYMENT
CompileSign ==
    /\ compilePc = "sign"
    /\ \E outcome \in {"header", "throws"} :
          IF outcome = "header"
              THEN /\ compilePc' = "retry"
                   /\ ideRequest' = [action |-> "compile", payment |-> TRUE]
                   /\ UNCHANGED <<isCompiling, compileResult>>
              ELSE CompileEnds("failure")
    /\ UNCHANGED <<isConnected, isDeploying, aiPanelOpen, deployPc>>
    /\ UNCHANGED <<analyzerVars, agentVars, dexVars, nftVars, analyticsVars, editorVars, riskVars>>

\* await generateErrorExplanation(result.errors), which catches its errors
\* and toggles the AI panel when it has an explanation
CompileExplain ==
    /\ compilePc = "explain"
    /\ CompileEnds(compileResult)
    /\ \E outcome \in {"explained", "failed"} :
          aiPanelOpen' = IF outcome = "explained" THEN ~aiPanelOpen ELSE aiPanelOpen
    /\ UNCHANGED <<isConnected, isDeploying, deployPc>>
    /\ UNCHANGED <<analyzerVars, agentVars, dexVars, nftVars, analyticsVars, editorVars, riskVars>>

\* handleDeploy up to its first await: the check of compileResult,
\* setDeploying(true) and the fetch of action deploy
handleDeploy ==
    /\ deployPc = "idle"
    /\ IF compileResult # "success"
           THEN UNCHANGED <<isDeploying, deployPc, ideRequest>>
           ELSE /\ isDeploying' = TRUE
                /\ deployPc' = "fetch"
                /\ ideRequest' = [action |-> "deploy", payment |-> FALSE]
    /\ UNCHANGED <<isConnected, isCompiling, compileResult, aiPanelOpen, compilePc>>
    /\ UNCHANGED <<analyzerVars, agentVars, dexVars, nftVars, analyticsVars, editorVars, riskVars>>

\* the answer to the first or to the retried deploy request
DeployResponse ==
    /\ deployPc \in {"fetch", "retry"}
    /\ \E outcome \in FetchOutcomes :
          IF outcome = "402" /\ deployPc = "fetch"
              THEN /\ deployPc' = "sign"
                   /\ UNCHANGED isDeploying
              ELSE /\ isDeploying' = FALSE
                   /\ deployPc' = "idle"
    /\ UNCHANGED <<isConnected, isCompiling, compileResult, aiPanelOpen, compilePc,
                   ideRequest>>
    /\ UNCHANGED <<analyzerVars, agentVars, dexVars, nftVars, analyticsVars, editorVars, riskVars>>

\* await createPaymentHeader(...), then the deploy request with X-PAYMENT
DeploySign ==
    /\ deployPc = "sign"
    /\ \E outcome \in {"header", "throws"} :
          IF outcome = "header"
              THEN /\ deployPc' = "retry"
                   /\ ideRequest' = [action |-> "deploy", payment |-> TRUE]
                   /\ UNCHANGED isDeploying
              ELSE /\ isDeploying' = FALSE
                   /\ deployPc' = "idle"
                   /\ UNCHANGED ideRequest
    /\ UNCHANGED <<isConnected, isCompiling, compileResult, aiPanelOpen, compilePc>>
    /\ UNCHANGED <<analyzerVars, agentVars, dexVars, nftVars, analyticsVars, editorVars, riskVars>>

NextIDE ==
    \/ connectWallet
    \/ disconnect
    \/ handleCompile
    \/ CompileResponse
    \/ CompileSign
    \/ CompileExplain
    \/ handleDeploy
    \/ DeployResponse
    \/ DeploySign

\* every await of a running handler settles: the fetches answer or fail, the
\* wallet signs or refuses
FairSpecIDE ==
    /\ InitDEX
    /\ [][NextIDE]_vars
    /\ WF_vars(CompileResponse)
    /\ WF_vars(CompileSign)
    /\ WF_vars(CompileExplain)
    /\ WF_vars(DeployResponse)
    /\ WF_vars(DeploySign)

-----------------------------------------------------------------------------
(* Claims about the route analyzer. *)

Analysed == response.status = 200

IsSource == code.kind = "string" /\ code.text # <<>>

\* the number of issues of the report with the given severity
SeverityCount(issues, severity) ==
    Len(SelectSeq(issues, LAMBDA issue : issue.severity = severity))

\* the number of issues of the report with the given title
TitleCount(issues, title) ==
    Len(SelectSeq(issues, LAMBDA issue : issue.title = title))

NonInfo(issues) == SelectSeq(issues, LAMBDA issue : issue.severity # "info")

NotRecommended(analysis) ==
    analysis.deploymentRecommendation =
        "DEPLOYMENT NOT RECOMMENDED - Critical vulnerabilities detected. Fix immediately."

SafeToDeployMessage(analysis) ==
    analysis.deploymentRecommendation =
        "SAFE TO DEPLOY - No critical issues detected. Standard best practices followed."

\* no text any rule tests with includes() occurs, the audited-library import
\* apart, and none of the three regular expressions matches
NoOtherPattern(text) ==
    /\ ~Includes(text, Lit.function)
    /\ ~Includes(text, Lit.callValue)
    /\ ~Includes(text, Lit.call)
    /\ ~Includes(text, Lit.delegatecall)
    /\ ~Includes(text, Lit.SPDX)
    /\ ~Includes(text, Lit.constructor)
    /\ ~Includes(text, Lit.selfdestruct)
    /\ ~Includes(text, Lit.suicide)
    /\ ~Includes(text, Lit.txOrigin)
    /\ ~Includes(text, Lit.ReentrancyGuard)
    /\ ~Includes(text, Lit.nonReentrant)
    /\ ~Includes(text, Lit.require)
    /\ ~Includes(text, Lit.revert)
    /\ ~Includes(text, Lit.SafeMath)
    /\ ~Includes(text, Lit.Ownable)
    /\ ~Includes(text, Lit.AccessControl)
    /\ ~Includes(text, Lit.onlyOwner)
    /\ ~Includes(text, Lit.mint)
    /\ ~Includes(text, Lit.burn)
    /\ ~Includes(text, Lit.withdraw)
    /\ ~Includes(text, Lit.length)
    /\ ~Includes(text, Lit.functionTransfer)
    /\ ~Includes(text, Lit.emitTransfer)
    /\ ~Includes(text, Lit.floatingPragma)
    /\ ~Includes(text, Lit.blockTimestamp)
    /\ ~Includes(text, Lit.now)
    /\ ~PragmaMatch(text).matched
    /\ ~HasForLoop(text)
    /\ FunctionMatches(text, 1) = <<>>

NoPatternOccurs(text) ==
    ~Includes(text, Lit.openzeppelin) /\ NoOtherPattern(text)

\* C1: the riskScore of every report is exactly the sum, over the issues of
\* that report, of the fixed weights critical=10, high=7, medium=4, low=2,
\* info=0, with no other adjustment.
C1_ScoreIsWeightSum ==
    Analysed =>
        LET issues == response.analysis.issues
        IN  response.analysis.riskScore =
                10 * SeverityCount(issues, "critical")
                + 7 * SeverityCount(issues, "high")
                + 4 * SeverityCount(issues, "medium")
                + 2 * SeverityCount(issues, "low")
                + 0 * SeverityCount(issues, "info")

\* a report with a critical, a high and a low issue
C1_Witness ==
    /\ Analysed
    /\ SeverityCount(response.analysis.issues, "critical") > 0
    /\ SeverityCount(response.analysis.issues, "high") > 0
    /\ SeverityCount(response.analysis.issues, "low") > 0

\* C2: the safe-to-deploy verdict is negative if and only if at least one
\* finding is critical, whatever the high, medium, low and info findings:
\* for the route's deployment recommendation and for the safeToDeploy flag
\* analyzeContract returns.
C2_VerdictIffCritical ==
    /\ Analysed =>
          (NotRecommended(response.analysis)
              <=> SeverityCount(response.analysis.issues, "critical") > 0)
    /\ libResult.outcome = "returned" =>
          ((libResult.results.safeToDeploy = FALSE)
              <=> \E n \in 1..Len(libResult.results.vulnerabilities) :
                      libResult.results.vulnerabilities[n].risk = "CRITICAL")

C3_LibRunsIdentical ==
    libPrevious.outcome # "none" => libPrevious = libResult

\* the severity and title of each issue, in order
SeverityTitles(issues) ==
    [n \in 1..Len(issues) |-> <<issues[n].severity, issues[n].title>>]

\* C4 as stated: a non-empty source in which no detection pattern occurs
\* gets no findings, score 0 and the lowest risk level.
C4_NoPatternNoFindings ==
    (IsSource /\ Analysed /\ NoPatternOccurs(code.text)) =>
        /\ response.analysis.issues = <<>>
        /\ response.analysis.riskScore = 0
        /\ response.analysis.riskLevel = "Minimal Risk"

\* C4 amended: a non-empty source in which no detection pattern occurs gets
\* exactly the findings of the two absence rules, Missing SPDX License
\* Identifier (low) and No Constructor Defined (info), score 2 and the
\* lowest risk level.
C4_NoPatternAbsenceFindings ==
    (IsSource /\ Analysed /\ NoPatternOccurs(code.text)) =>
        /\ SeverityTitles(response.analysis.issues) =
              << <<"low", "Missing SPDX License Identifier">>,
                 <<"info", "No Constructor Defined">> >>
        /\ response.analysis.riskScore = 2
        /\ response.analysis.riskLevel = "Minimal Risk"

C4_Witness ==
    IsSource /\ Analysed /\ NoPatternOccurs(code.text)

\* C5 as stated: a source with ".call{value:" and without "ReentrancyGuard"
\* gets exactly one finding titled Potential Reentrancy Vulnerability, of
\* severity critical, and a negative deploy verdict.
C5_ReentrancyUnlessGuard ==
    (/\ IsSource /\ Analysed
     /\ Includes(code.text, Lit.callValue)
     /\ ~Includes(code.text, Lit.ReentrancyGuard)) =>
        LET issues == response.analysis.issues
        IN  /\ TitleCount(issues, "Potential Reentrancy Vulnerability") = 1
            /\ \A n \in 1..Len(issues) :
                  issues[n].title = "Potential Reentrancy Vulnerability"
                      => issues[n].severity = "critical"
            /\ NotRecommended(response.analysis)

\* C5 amended: in the route analyzer, a source with ".call{value:" and with
\* neither "ReentrancyGuard" nor "nonReentrant" gets exactly one finding
\* titled Potential Reentrancy Vulnerability, of severity critical, and a
\* negative deploy verdict.
C5_ReentrancyUnlessGuardOrModifier ==
    (/\ IsSource /\ Analysed
     /\ Includes(code.text, Lit.callValue)
     /\ ~Includes(code.text, Lit.ReentrancyGuard)
     /\ ~Includes(code.text, Lit.nonReentrant)) =>
        LET issues == response.analysis.issues
        IN  /\ TitleCount(issues, "Potential Reentrancy Vulnerability") = 1
            /\ \A n \in 1..Len(issues) :
                  issues[n].title = "Potential Reentrancy Vulnerability"
                      => issues[n].severity = "critical"
            /\ NotRecommended(response.analysis)

C5_Witness ==
    /\ IsSource /\ Analysed
    /\ Includes(code.text, Lit.callValue)
    /\ ~Includes(code.text, Lit.ReentrancyGuard)
    /\ ~Includes(code.text, Lit.nonReentrant)
    /\ Len(response.analysis.issues) > 2

\* C6: a source with "selfdestruct(" gets one critical finding for the
\* destruction; a report with both that finding and the critical reentrancy
\* finding has a score of at least 20 and the risk level High Risk, also
\* when the score is exactly 20.
C6_SelfdestructWithReentrancyIsHigh ==
    (IsSource /\ Analysed) =>
        LET issues == response.analysis.issues
        IN  /\ Includes(code.text, LibLit.selfdestruct) =>
                  /\ TitleCount(issues, "Use of selfdestruct") = 1
                  /\ \A n \in 1..Len(issues) :
                        issues[n].title = "Use of selfdestruct"
                            => issues[n].severity = "critical"
            /\ (/\ TitleCount(issues, "Use of selfdestruct") = 1
                /\ TitleCount(issues, "Potential Reentrancy Vulnerability") = 1) =>
                  /\ response.analysis.riskScore >= 20
                  /\ response.analysis.riskLevel = "High Risk"

\* C7 as stated: a source with "@openzeppelin/contracts" and no other
\* pattern gets exactly one finding, of severity info, score 0, the lowest
\* risk level and a safe verdict.
C7_OpenZeppelinOnlyOneFinding ==
    (/\ IsSource /\ Analysed
     /\ Includes(code.text, Lit.openzeppelin)
     /\ NoOtherPattern(code.text)) =>
        /\ Len(response.analysis.issues) = 1
        /\ response.analysis.issues[1].severity = "info"
        /\ response.analysis.riskScore = 0
        /\ response.analysis.riskLevel = "Minimal Risk"
        /\ SafeToDeployMessage(response.analysis)

\* C7 amended: a source with "@openzeppelin/contracts" and no other pattern
\* gets exactly three findings, Uses OpenZeppelin Contracts (info), Missing
\* SPDX License Identifier (low) and No Constructor Defined (info), score 2,
\* the lowest risk level and a safe verdict.
C7_OpenZeppelinOnlyThreeFindings ==
    (/\ IsSource /\ Analysed
     /\ Includes(code.text, Lit.openzeppelin)
     /\ NoOtherPattern(code.text)) =>
        /\ SeverityTitles(response.analysis.issues) =
              << <<"info", "Uses OpenZeppelin Contracts">>,
                 <<"low", "Missing SPDX License Identifier">>,
                 <<"info", "No Constructor Defined">> >>
        /\ response.analysis.riskScore = 2
        /\ response.analysis.riskLevel = "Minimal Risk"
        /\ SafeToDeployMessage(response.analysis)

C7_Witness ==
    /\ IsSource /\ Analysed
    /\ Includes(code.text, Lit.openzeppelin)
    /\ NoOtherPattern(code.text)

\* C8: the summary of every report has the five keys critical, high, medium,
\* low and info, each holding the number of issues of that severity, so the
\* five counts add up to the number of issues.
C8_SummaryCountsIssues ==
    Analysed =>
        LET issues == response.analysis.issues
            summary == response.analysis.summary
        IN  /\ DOMAIN summary = {"critical", "high", "medium", "low", "info"}
            /\ \A k \in DOMAIN summary : summary[k] = SeverityCount(issues, k)
            /\ summary.critical + summary.high + summary.medium
                   + summary.low + summary.info = Len(issues)

\* a report with issues of some severities and none of others
C8_Witness ==
    /\ Analysed
    /\ response.analysis.summary.info > 0
    /\ response.analysis.summary.medium > 1
    /\ response.analysis.summary.critical = 0

\* C9: the risk level is the level of the first of the thresholds 20, 10, 5
\* (highest first) that the score meets or exceeds: 20 is High, 10 is
\* Medium, 5 is Low, and a score below every threshold is Minimal.
C9_LevelOfFirstThresholdMet ==
    Analysed =>
        response.analysis.riskLevel =
            (IF response.analysis.riskScore >= 20 THEN "High Risk"
             ELSE IF response.analysis.riskScore >= 10 THEN "Medium Risk"
             ELSE IF response.analysis.riskScore >= 5 THEN "Low Risk"
             ELSE "Minimal Risk")

\* C10: informational findings never affect scoring: the score and the risk
\* level of a report are those of its findings other than the info ones, so
\* two reports whose findings differ only in info findings have the same
\* score and the same level.
C10_InfoNeverAffectsScore ==
    Analysed =>
        LET scored == NonInfo(response.analysis.issues)
        IN  /\ response.analysis.riskScore = RiskScore(scored)
            /\ response.analysis.riskLevel = RiskLevel(RiskScore(scored))

\* a report with a positive score and two info findings
C10_Witness ==
    /\ Analysed
    /\ SeverityCount(response.analysis.issues, "info") = 2
    /\ response.analysis.riskScore > 5

-----------------------------------------------------------------------------
(* Claims about the verdict tiers, the input check and failing rules. *)

CautionMessage(analysis) ==
    analysis.deploymentRecommendation =
        "DEPLOY WITH CAUTION - High severity issues detected. Review carefully."

\* C11 as stated: the verdict has three tiers. The route recommends against
\* deployment when a critical issue exists, words a caution when there is
\* no critical but a high issue, and calls the contract deployable
\* otherwise; the deploy action blocks only on a critical issue; and
\* analyzeContract's safeToDeploy is false only when a CRITICAL
\* vulnerability was found, never for HIGH ones alone.
C11_ThreeTierVerdict ==
    /\ Analysed =>
          LET a == response.analysis
          IN  /\ a.summary.critical > 0 => NotRecommended(a)
              /\ (a.summary.critical = 0 /\ a.summary.high > 0) => CautionMessage(a)
              /\ (a.summary.critical = 0 /\ a.summary.high = 0) =>
                    (~NotRecommended(a) /\ ~CautionMessage(a))
    /\ (agentResponse.status = 403 /\ pc = "done" /\ request.action = "deploy"
           /\ trace # <<>> /\ trace[Len(trace)].call = "/api/security") =>
          agentResponse.securityAnalysis.summary.critical > 0
    /\ libResult.outcome = "returned" =>
          ((libResult.results.safeToDeploy = FALSE)
              => \E n \in 1..Len(libResult.results.vulnerabilities) :
                     libResult.results.vulnerabilities[n].risk = "CRITICAL")

\* C12 as stated: the caller gets a complete report or an input error; a
\* code value that is missing, empty or not a string is answered with the
\* input error (400 "Contract code required"), never with a report and
\* never with an internal failure.
C12_NonStringIsInputError ==
    response.status # 0 =>
        IF IsSource
            THEN /\ response.status = 200
                 /\ DOMAIN response.analysis =
                       {"riskLevel", "riskScore", "deploymentRecommendation",
                        "summary", "issues", "timestamp", "disclaimer"}
            ELSE /\ response.status = 400
                 /\ response.error = "Contract code required"

\* C13 as stated: when the detector of a rule throws, the analysis still
\* succeeds (the rule contributes nothing, the others are evaluated) and
\* the failure is not answered as an error response.
C13_RuleFailureContained ==
    (response.status # 0 /\ Truthy(code) /\ FirstThrowingRule(code) > 0) =>
        /\ response.status = 200
        /\ response.success = TRUE

-----------------------------------------------------------------------------
(* Claims about the findings list of both analyzers. *)

BothAnalysed == Analysed /\ libResult.outcome = "returned"

\* the number of places where the literal pat occurs in text
Occurrences(text, pat) ==
    Cardinality({i \in 1..Len(text) : StartsAt(text, pat, i)})

\* the literal the library pattern of that name searches for
LibLiteral(name) ==
    CASE name = "Reentrancy" -> LibLit.callValue
      [] name = "Unchecked Transfer" -> LibLit.transfer
      [] name = "Timestamp Dependency" -> LibLit.blockTimestamp
      [] name = "Unchecked External Call" -> LibLit.call
      [] name = "Delegatecall" -> LibLit.delegatecall
      [] name = "Selfdestruct" -> LibLit.selfdestruct

\* the place of element x in the sequence seq
Position(seq, x) == CHOOSE i \in 1..Len(seq) : seq[i] = x

LibNames == [k \in 1..Len(VULNERABILITY_PATTERNS) |-> VULNERABILITY_PATTERNS[k].name]

\* C14: a run reports each rule at most once. The issues of the route hold
\* no title twice and are no more than the fourteen rules; the
\* vulnerabilities of analyzeContract hold no name twice, are no more than
\* the seven patterns, and the count of each is the number of matches of
\* its pattern in the source (for the one pattern that is not a literal, at
\* least one and at most the number of `function` keywords).
C14_OneFindingPerRule ==
    /\ Analysed =>
          LET issues == response.analysis.issues
          IN  /\ Len(issues) <= Len(RouteCatalog)
              /\ \A i, j \in 1..Len(issues) :
                    i < j => issues[i].title # issues[j].title
    /\ libResult.outcome = "returned" =>
          LET found == libResult.results.vulnerabilities
          IN  /\ Len(found) <= Len(VULNERABILITY_PATTERNS)
              /\ \A i, j \in 1..Len(found) : i < j => found[i].name # found[j].name
              /\ \A n \in 1..Len(found) :
                    IF found[n].name = "Missing Access Control"
                        THEN /\ found[n].count >= 1
                             /\ found[n].count <= Occurrences(code.text, LibLit.function)
                        ELSE found[n].count
                                 = Occurrences(code.text, LibLiteral(found[n].name))

\* both analyzers have run on a source where a pattern occurs twice: the
\* route reports the rule once, the library once with count 2
C14_Witness ==
    /\ BothAnalysed
    /\ Occurrences(code.text, Lit.call) = 2
    /\ TitleCount(response.analysis.issues, "Unchecked External Call") = 1
    /\ \E n \in 1..Len(libResult.results.vulnerabilities) :
          /\ libResult.results.vulnerabilities[n].name = "Unchecked External Call"
          /\ libResult.results.vulnerabilities[n].count = 2

\* C15: the findings appear in the order of the rule catalog: the issues of
\* the route in the order the handler evaluates its rules, the
\* vulnerabilities of analyzeContract in the order of VULNERABILITY_PATTERNS.
C15_FindingsInCatalogOrder ==
    /\ Analysed =>
          LET issues == response.analysis.issues
          IN  \A i, j \in 1..Len(issues) :
                 i < j => Position(RouteCatalog, issues[i].title)
                              < Position(RouteCatalog, issues[j].title)
    /\ libResult.outcome = "returned" =>
          LET found == libResult.results.vulnerabilities
          IN  \A i, j \in 1..Len(found) :
                 i < j => Position(LibNames, found[i].name)
                              < Position(LibNames, found[j].name)

\* both analyzers have reported several findings on one source
C15_Witness ==
    /\ BothAnalysed
    /\ Len(response.analysis.issues) >= 4
    /\ Len(libResult.results.vulnerabilities) >= 2

-----------------------------------------------------------------------------
(* Claims about runs that share the library module. *)

\* what analyzeContract returns for text in a module nobody has called yet
Isolated(text) == analyzeContract(text, FreshLastIndex)

-----------------------------------------------------------------------------
(* Claims about rules whose condition does not hold. *)

HasTitle(issues, title) == TitleCount(issues, title) > 0

\* the route reports the audited-library entry exactly for sources with the
\* import, and no issue carries a verdict field
RouteReportsOnlyMatches ==
    Analysed =>
        LET issues == response.analysis.issues
        IN  /\ HasTitle(issues, "Uses OpenZeppelin Contracts")
                  <=> Includes(code.text, Lit.openzeppelin)
            /\ HasTitle(issues, "Use of tx.origin for Authorization")
                  <=> Includes(code.text, Lit.txOrigin)
            /\ HasTitle(issues, "Floating Pragma")
                  <=> Includes(code.text, Lit.floatingPragma)
            /\ HasTitle(issues, "Use of selfdestruct")
                  <=> (Includes(code.text, Lit.selfdestruct)
                          \/ Includes(code.text, Lit.suicide))
            /\ \A n \in 1..Len(issues) :
                  DOMAIN issues[n]
                      = {"severity", "title", "description", "recommendation"}

-----------------------------------------------------------------------------
(* Claims about the agent API. *)

Answered == pc = "done" /\ agentResponse.status # 0

PaidRequest == request.action \in {"audit", "deploy"}

\* the request passes the checks that come before the payment gate
PassesPolicy ==
    /\ env.GROQ_API_KEY \/ env.CHAINGPT_API_KEY
    /\ request.userAddress = "wallet"

PaymentCalls == {"verifyPayment", "settlePayment"}

\* the handler has started on the action itself: it stands at one of the
\* action's awaits or has made one of its external calls
ActionStarted ==
    \/ pc \notin {"idle", "done", "verifyPayment", "settlePayment"}
    \/ \E n \in 1..Len(trace) : trace[n].call \notin PaymentCalls

\* the payment of this request was verified and then settled, before
\* anything else
VerifiedAndSettled ==
    /\ Len(trace) >= 2
    /\ trace[1] = [call |-> "verifyPayment", outcome |-> "valid"]
    /\ trace[2] = [call |-> "settlePayment", outcome |-> "settled"]

CriticalSource ==
    /\ code.kind = "string"
    /\ code.text # <<>>
    /\ SeverityCount(Issues(code.text), "critical") > 0

CompileOrDeployReached ==
    \/ pc \in {"deployCompile", "deployContract"}
    \/ \E n \in 1..Len(trace) : trace[n].call \in {"compileSolidity", "deployContract"}

DeploymentBlockedAnswer ==
    /\ agentResponse.status = 403
    /\ agentResponse.error
           = "Deployment blocked: Critical security vulnerabilities detected"

\* C19 as stated: every deploy request whose source triggers a critical
\* rule ends with the 403 'Deployment blocked' response, and neither
\* compileSolidity nor deployContract is reached.
C19_CriticalAlwaysBlocked403 ==
    (request.action = "deploy" /\ CriticalSource) =>
        /\ ~CompileOrDeployReached
        /\ Answered => DeploymentBlockedAnswer

\* C19 amended: a deploy request whose source triggers a critical rule
\* never reaches compileSolidity or deployContract; it ends with the 403
\* 'Deployment blocked' response exactly when /api/security answered with
\* its analysis, and otherwise ends earlier, with another refusal.
C19_CriticalNeverCompiled ==
    (request.action = "deploy" /\ CriticalSource) =>
        /\ ~CompileOrDeployReached
        /\ Answered =>
              /\ agentResponse.status \in {402, 403, 500}
              /\ DeploymentBlockedAnswer
                    <=> (trace # <<>>
                         /\ trace[Len(trace)]
                                = [call |-> "/api/security", outcome |-> "analysis"])
              /\ DeploymentBlockedAnswer =>
                    agentResponse.securityAnalysis.summary.critical > 0

\* a paid deploy of a source with a critical issue got as far as the
\* security check and was refused there
C19_Witness ==
    /\ request.action = "deploy"
    /\ CriticalSource
    /\ Answered
    /\ DeploymentBlockedAnswer
    /\ VerifiedAndSettled
    /\ Len(trace) = 4

-----------------------------------------------------------------------------
(* Claims about HighSpeedDEX. *)

Addresses == Tokens \cup {ZeroAddress}

PoolExists(poolId) == pools[poolId].tokenA # ZeroAddress

\* C20: in every reachable state createPool(tokenA, tokenB) reverts with
\* "Identical tokens" when the two are equal, reverts when either is the
\* zero address, reverts with "Pool exists" when the pool of the ordered
\* pair exists, and goes through otherwise; a reverted createPool leaves
\* pools as it was, one that goes through writes the pair with zero
\* reserves and zero total liquidity into an empty slot and touches no
\* other pool; and no call of any function changes the tokenA or tokenB of
\* an existing pool.
C20_CreatePool ==
    [][ /\ \A tokenA \in Addresses, tokenB \in Addresses :
              LET reason == CreatePoolRevert(tokenA, tokenB)
              IN  IF tokenA = tokenB THEN reason = "Identical tokens"
                  ELSE IF tokenA = ZeroAddress \/ tokenB = ZeroAddress
                      THEN reason # ""
                  ELSE IF PoolExists(<<tokenA, tokenB>>) THEN reason = "Pool exists"
                  ELSE reason = ""
        /\ (dexCall'.fn = "createPool" /\ dexCall'.outcome # "ok") => pools' = pools
        /\ (dexCall'.fn = "createPool" /\ dexCall'.outcome = "ok") =>
              LET poolId == dexCall'.args
              IN  /\ poolId[1] # poolId[2]
                  /\ ~PoolExists(poolId)
                  /\ pools'[poolId] = [tokenA |-> poolId[1], tokenB |-> poolId[2],
                                       reserveA |-> 0, reserveB |-> 0,
                                       totalLiquidity |-> 0]
                  /\ \A other \in PoolIds \ {poolId} : pools'[other] = pools[other]
        /\ \A poolId \in PoolIds :
              PoolExists(poolId) =>
                  /\ pools'[poolId].tokenA = pools[poolId].tokenA
                  /\ pools'[poolId].tokenB = pools[poolId].tokenB
      ]_vars

\* createPool was refused for a pair whose pool exists and holds reserves,
\* after liquidity was added and swapped
C20_Witness ==
    /\ dexCall.fn = "createPool"
    /\ dexCall.outcome = "Pool exists"
    /\ \E poolId \in PoolIds :
          /\ pools[poolId].tokenA = poolId[1]
          /\ pools[poolId].tokenB = poolId[2]
          /\ pools[poolId].reserveA > pools[poolId].reserveB
          /\ pools[poolId].totalLiquidity > 0

\* the reserves of a pool on the side of tokenIn and on the other side
ReserveIn(pool, tokenIn) ==
    IF tokenIn = pool.tokenA THEN pool.reserveA ELSE pool.reserveB

ReserveOut(pool, tokenIn) ==
    IF tokenIn = pool.tokenA THEN pool.reserveB ELSE pool.reserveA

\* amountOut as the formula states it; the divisor is not zero
StatedAmountOut(amountIn, reserveIn, reserveOut) ==
    (amountIn * (1000 - swapFee) * reserveOut)
        \div (reserveIn * 1000 + amountIn * (1000 - swapFee))

\* C21: a swap on an existing pool with one of its tokens computes
\* amountOut = (amountIn*(1000-swapFee)*reserveOut) /
\* (reserveIn*1000 + amountIn*(1000-swapFee)); it reverts with "Slippage
\* exceeded" when amountOut < minAmountOut, with "Insufficient liquidity"
\* when amountOut >= reserveOut, and goes through otherwise unless a token
\* transfer reverts (when the divisor is zero it reverts as well). Every
\* reverted swap leaves all pools as they were; every swap that went through
\* had minAmountOut <= amountOut < reserveOut, added amountIn to the input
\* reserve, took exactly amountOut from the output reserve and changed
\* nothing else.
C21_SwapOutput ==
    /\ [](\A poolId \in PoolIds, tokenIn \in Tokens, amountIn \in 0..MaxAmount,
             minAmountOut \in 0..MaxAmount, transfers \in {"ok", "reverts"} :
            LET pool == pools[poolId]
                reserveIn == ReserveIn(pool, tokenIn)
                reserveOut == ReserveOut(pool, tokenIn)
                reason == SwapRevert(poolId, tokenIn, amountIn, minAmountOut, transfers)
            IN  (PoolExists(poolId) /\ tokenIn \in {pool.tokenA, pool.tokenB}) =>
                    IF reserveIn * 1000 + amountIn * (1000 - swapFee) = 0
                        THEN reason # ""
                    ELSE IF StatedAmountOut(amountIn, reserveIn, reserveOut) < minAmountOut
                        THEN reason = "Slippage exceeded"
                    ELSE IF StatedAmountOut(amountIn, reserveIn, reserveOut) >= reserveOut
                        THEN reason = "Insufficient liquidity"
                    ELSE reason = (IF transfers = "ok" THEN "" ELSE "ERC20 transfer failed"))
    /\ [][ /\ (dexCall'.fn = "swap" /\ dexCall'.outcome # "ok") => pools' = pools
           /\ (dexCall'.fn = "swap" /\ dexCall'.outcome = "ok") =>
                 LET poolId == dexCall'.args[1]
                     tokenIn == dexCall'.args[2]
                     amountIn == dexCall'.args[3]
                     minAmountOut == dexCall'.args[4]
                     pool == pools[poolId]
                     amountOut == StatedAmountOut(amountIn, ReserveIn(pool, tokenIn),
                                                  ReserveOut(pool, tokenIn))
                 IN  /\ amountOut >= minAmountOut
                     /\ amountOut < ReserveOut(pool, tokenIn)
                     /\ ReserveIn(pools'[poolId], tokenIn)
                            = ReserveIn(pool, tokenIn) + amountIn
                     /\ ReserveOut(pools'[poolId], tokenIn)
                            = ReserveOut(pool, tokenIn) - amountOut
                     /\ pools'[poolId].totalLiquidity = pool.totalLiquidity
                     /\ \A other \in PoolIds \ {poolId} : pools'[other] = pools[other]
         ]_vars

\* a swap of 2 went through and paid out: the pool it ran on now holds the
\* uneven reserves such a swap leaves
C21_Witness ==
    /\ dexCall.fn = "swap"
    /\ dexCall.outcome = "ok"
    /\ dexCall.args[3] = 2
    /\ LET pool == pools[dexCall.args[1]]
       IN  /\ ReserveIn(pool, dexCall.args[2]) = 3
           /\ ReserveOut(pool, dexCall.args[2]) = 2

\* C22: removeLiquidity(poolId, liquidity) by a caller whose recorded
\* liquidity in the pool is less than `liquidity` reverts with "Insufficient
\* liquidity", and no call by a caller with no recorded liquidity goes
\* through; a reverted removeLiquidity changes neither the pools nor the
\* recorded liquidity; one that went through was made by a caller whose
\* record covered the amount; and an account's record in a pool grows only
\* by its own addLiquidity on that pool, so an account that never added
\* liquidity never takes reserves out, whatever the others do.
C22_RemoveNeedsShare ==
    /\ [](\A sender \in Accounts, poolId \in PoolIds, liquidity \in 0..MaxAmount,
             transfers \in {"ok", "reverts"} :
            LET reason == RemoveLiquidityRevert(sender, poolId, liquidity, transfers)
            IN  /\ liquidityProviders[poolId][sender] < liquidity
                       => reason = "Insufficient liquidity"
                /\ liquidityProviders[poolId][sender] = 0 => reason # "")
    /\ [][ /\ (dexCall'.fn = "removeLiquidity" /\ dexCall'.outcome # "ok") =>
                 /\ pools' = pools
                 /\ liquidityProviders' = liquidityProviders
           /\ (dexCall'.fn = "removeLiquidity" /\ dexCall'.outcome = "ok") =>
                 LET poolId == dexCall'.args[1]
                     liquidity == dexCall'.args[2]
                     share == liquidityProviders[poolId][dexCall'.sender]
                 IN  /\ share >= liquidity
                     /\ share > 0
                     /\ liquidityProviders'[poolId][dexCall'.sender] = share - liquidity
           /\ \A poolId \in PoolIds, account \in Accounts :
                 liquidityProviders'[poolId][account] > liquidityProviders[poolId][account]
                     => /\ dexCall'.fn = "addLiquidity"
                        /\ dexCall'.outcome = "ok"
                        /\ dexCall'.sender = account
                        /\ dexCall'.args[1] = poolId
         ]_vars

\* a removeLiquidity was refused for want of recorded liquidity while a pool
\* holds reserves that belong to one account only
C22_Witness ==
    /\ dexCall.fn = "removeLiquidity"
    /\ dexCall.outcome = "Insufficient liquidity"
    /\ \E poolId \in PoolIds, account \in Accounts :
          /\ pools[poolId].reserveA > 0
          /\ pools[poolId].reserveB > 0
          /\ liquidityProviders[poolId][account] = 0
          /\ pools[poolId].totalLiquidity > 0

\* C23: swapFee is at most 30 in every reachable state; setSwapFee reverts
\* when the caller is not the owner or newFee > 30; a reverted setSwapFee
\* leaves swapFee as it was; and swapFee changes only in a setSwapFee call
\* of the owner that went through, to the newFee of that call.
C23_SwapFeeCapped ==
    /\ [](/\ swapFee <= 30
          /\ \A sender \in Accounts, newFee \in NewFees :
                (sender # Owner \/ newFee > 30) => SetSwapFeeRevert(sender, newFee) # "")
    /\ [][ /\ (dexCall'.fn = "setSwapFee" /\ dexCall'.outcome # "ok")
                 => swapFee' = swapFee
           /\ swapFee' # swapFee =>
                 /\ dexCall'.fn = "setSwapFee"
                 /\ dexCall'.outcome = "ok"
                 /\ dexCall'.sender = Owner
                 /\ dexCall'.args[1] = swapFee'
         ]_vars

\* the owner has raised the fee to the cap, and a later setSwapFee above the
\* cap was refused
C23_Witness ==
    /\ dexCall.fn = "setSwapFee"
    /\ dexCall.outcome = "Fee too high"
    /\ swapFee = 30

RECURSIVE SumOfShares(_, _)
\* the recorded liquidity of the given accounts in a pool, added up
SumOfShares(poolId, accounts) ==
    IF accounts = {} THEN 0
    ELSE LET account == CHOOSE a \in accounts : TRUE
         IN  liquidityProviders[poolId][account]
                 + SumOfShares(poolId, accounts \ {account})

\* C26: in every reachable state the totalLiquidity of every pool equals the
\* sum of liquidityProviders[poolId][account] over all accounts, and a swap,
\* reverted or not, changes no pool's totalLiquidity and no account's
\* recorded liquidity.
C26_TotalIsSumOfShares ==
    /\ [](\A poolId \in PoolIds :
             pools[poolId].totalLiquidity = SumOfShares(poolId, Accounts))
    /\ [][ dexCall'.fn = "swap" =>
              /\ liquidityProviders' = liquidityProviders
              /\ \A poolId \in PoolIds :
                    pools'[poolId].totalLiquidity = pools[poolId].totalLiquidity
         ]_vars

\* a swap went through on a pool in which both accounts hold liquidity
C26_Witness ==
    /\ dexCall.fn = "swap"
    /\ dexCall.outcome = "ok"
    /\ \A account \in Accounts : liquidityProviders[dexCall.args[1]][account] > 0
    /\ pools[dexCall.args[1]].totalLiquidity = 2

\* C24: every token GameAssetNFT has minted, by mint or by batchMint, has a
\* rarity in 1..4.
C24_RarityInRange ==
    \A tokenId \in 0..(tokenIdCounter - 1) : tokenRarity[tokenId + 1] \in 1..4

\* the AI-backed actions that answer 503 without a result
FallbackActions == {"research", "generate", "audit", "optimize", "fix"}

Providers == {"callGroqAPI", "callChainGPTAPI"}

\* the positions on the trace where the given provider was called
CallsOf(provider) == {n \in 1..Len(trace) : trace[n].call = provider}

\* a provider has produced a non-empty result for this request
ProviderResult ==
    \E n \in 1..Len(trace) : trace[n].call \in Providers /\ trace[n].outcome = "result"

\* Groq was asked before position n and threw or returned an empty result
GroqFailedBefore(n) ==
    \E m \in 1..(n - 1) :
        /\ trace[m].call = "callGroqAPI"
        /\ trace[m].outcome \in {"empty", "throws"}

NoChainGPTAfterGroqResult ==
    \A m \in CallsOf("callGroqAPI"), n \in CallsOf("callChainGPTAPI") :
        m < n => trace[m].outcome # "result"

\* C25 as stated: for research, generate, audit, optimize and fix, ChainGPT
\* is called only with its key configured and only after Groq threw or
\* returned an empty result; an answered request got 503 "AI service
\* unavailable" exactly when no provider produced a non-empty result; and
\* ChainGPT is never called after a non-empty Groq result.
C25_FallbackOrderAnd503 ==
    request.action \in FallbackActions =>
        /\ \A n \in CallsOf("callChainGPTAPI") :
              env.CHAINGPT_API_KEY /\ GroqFailedBefore(n)
        /\ \A n \in CallsOf("callGroqAPI") : env.GROQ_API_KEY
        /\ Answered => (agentResponse.status = 503 <=> ~ProviderResult)
        /\ NoChainGPTAfterGroqResult

\* the request gets as far as the provider calls of its action: it passes
\* the policy checks, an audit has paid, and a fix carries body.errors
ReachesProviders ==
    /\ PassesPolicy
    /\ request.action = "audit" =>
          /\ request.payment = "payload"
          /\ (Answered \/ CallsOf("callGroqAPI") \cup CallsOf("callChainGPTAPI") # {})
                 => VerifiedAndSettled
    /\ ~(request.action = "fix" /\ request.errors = "missing")

\* C25, amended: for research, generate, audit, optimize and fix, each
\* provider is called at most once per request and only with its key
\* configured; Groq is the first provider called whenever its key is
\* configured, and ChainGPT is called only when its key is configured and
\* Groq's key is not configured or Groq threw or returned an empty result,
\* never after a non-empty Groq result. A request that gets as far as the
\* provider calls is answered 503 "AI service unavailable" exactly when no
\* provider produced a non-empty result; a request that does not (it fails
\* a policy check or the payment gate, or it is a fix without body.errors)
\* calls no provider and is answered 402, 403 or 500.
C25_FallbackOrder ==
    request.action \in FallbackActions =>
        /\ \A n \in CallsOf("callChainGPTAPI") :
              /\ env.CHAINGPT_API_KEY
              /\ IF env.GROQ_API_KEY THEN GroqFailedBefore(n)
                 ELSE CallsOf("callGroqAPI") = {}
        /\ \A n \in CallsOf("callGroqAPI") : env.GROQ_API_KEY
        /\ Cardinality(CallsOf("callGroqAPI")) <= 1
        /\ Cardinality(CallsOf("callChainGPTAPI")) <= 1
        /\ NoChainGPTAfterGroqResult
        /\ (Answered /\ ReachesProviders) =>
              /\ agentResponse.status = 503 <=> ~ProviderResult
              /\ agentResponse.status = 503
                     => agentResponse.error = "AI service unavailable"
        /\ (Answered /\ ~ReachesProviders) =>
              /\ agentResponse.status \in {402, 403, 500}
              /\ CallsOf("callGroqAPI") \cup CallsOf("callChainGPTAPI") = {}

\* Groq threw or came back empty, ChainGPT was asked next and produced the
\* result, and the request was answered with it
C25_Witness ==
    /\ request.action \in FallbackActions
    /\ Answered
    /\ agentResponse.status = 200
    /\ \E m \in CallsOf("callGroqAPI"), n \in CallsOf("callChainGPTAPI") :
          /\ m < n
          /\ trace[m].outcome \in {"empty", "throws"}
          /\ trace[n].outcome = "result"

\* the stored records whose deployer is `deployer` up to case
RecordsOf(deployer) ==
    {n \in 1..Len(analyticsFile.deployments) :
        ToLowerCase(analyticsFile.deployments[n].deployer) = ToLowerCase(deployer)}

\* the entries of users that stand for `deployer`
UsersOf(deployer) ==
    {n \in 1..Len(analyticsFile.users) :
        ToLowerCase(analyticsFile.users[n].address) = ToLowerCase(deployer)}

NamesOf(files) == {files[n].name : n \in 1..Len(files)}

\* C28: in every state of the editor the file list is not empty, the names
\* in it are pairwise distinct and currentFileName is the name of a file in
\* the list; no step takes a file out of a list of one; and a step that
\* takes the current file out makes the first remaining file the current
\* one and shows its code.
C28_FileListInvariant ==
    /\ [](/\ userFiles # <<>>
          /\ \A m, n \in 1..Len(userFiles) :
                userFiles[m].name = userFiles[n].name => m = n
          /\ currentFileName \in NamesOf(userFiles))
    /\ [][ /\ Len(userFiles) = 1 => NamesOf(userFiles) \subseteq NamesOf(userFiles')
           /\ currentFileName \notin NamesOf(userFiles') =>
                 /\ currentFileName' = userFiles'[1].name
                 /\ editorCode' = userFiles'[1].code
                 /\ userFiles' = SelectSeq(userFiles,
                                           LAMBDA f : f.name # currentFileName)
         ]_vars

\* the first file was deleted while it was open: the list holds two other
\* files and the first of them is the current one
C28_Witness ==
    /\ Len(userFiles) = 2
    /\ MyToken \notin NamesOf(userFiles)
    /\ currentFileName = userFiles[1].name
    /\ editorCode = userFiles[1].code

\* the place of a risk level in the order Minimal < Low < Medium < High
LevelRank(riskLevel) ==
    CASE riskLevel = "Minimal Risk" -> 0
      [] riskLevel = "Low Risk"     -> 1
      [] riskLevel = "Medium Risk"  -> 2
      [] riskLevel = "High Risk"    -> 3

\* C29: the riskScore of every list of findings is non-negative, and adding
\* a finding of any severity to a list never decreases its riskScore and
\* never lowers its riskLevel in the order Minimal < Low < Medium < High.
C29_RiskMonotone ==
    /\ [](riskReport.riskScore >= 0)
    /\ [][ /\ riskReport'.riskScore >= riskReport.riskScore
           /\ LevelRank(riskReport'.riskLevel) >= LevelRank(riskReport.riskLevel)
         ]_vars

\* a third finding, critical, has taken a list of a high and a medium
\* finding from Medium Risk to High Risk
C29_Witness ==
    /\ Len(findings) = 3
    /\ findings[3].severity = "critical"
    /\ RiskLevel(RiskScore(SubSeq(findings, 1, 2))) = "Medium Risk"
    /\ riskReport.riskLevel = "High Risk"

\* C30: every handleCompile run that sets isCompiling to true sets it back
\* to false in the end, every handleDeploy run that sets isDeploying to true
\* sets it back to false in the end, and whenever handleDeploy sends a
\* deploy request, the first or the retried one, the last compile result is
\* a success.
C30_BusyFlagsClear ==
    /\ isCompiling ~> ~isCompiling
    /\ isDeploying ~> ~isDeploying
    /\ [][ (deployPc' \in {"fetch", "retry"} /\ deployPc' # deployPc)
              => compileResult = "success" ]_vars

====
